---- MODULE Spec2Model ----
(***************************************************************************)
(* Model of the Gautomatch auto-picking plugin:                            *)
(*   gautomatch/protocols/protocol_gautomatch.py  (ProtGautomatch)         *)
(*   gautomatch/__init__.py                       (Plugin.runGautomatch)   *)
(*                                                                         *)
(* File names and directory paths are sequences of string tokens, so that  *)
(* name building (replaceBaseExt, '%06d' formatting, suffix globbing) is   *)
(* computed and two names are equal only when the code would build the     *)
(* same string.  A directory is a function from file name to content; a    *)
(* content records who wrote the file.                                     *)
(***************************************************************************)
EXTENDS Integers, Sequences, FiniteSets, TLC

(***************************************************************************)
(* Bounds of the model.                                                    *)
(***************************************************************************)
\* number of input micrographs of a run (object ids 1..NumMics)
NumMics == 3
\* largest value of the numberOfThreads parameter (parallel picking steps)
MaxThreads == 2
\* largest number of batches of a run in which the picker, a conversion or
\* the file system fails
MaxFaults == 1
\* largest micrograph object id and longest micrograph list of the
\* working-directory path computation
MaxObjId == 5
MaxListLen == 2
\* number of micrographs whose coordinate files are merged, and largest
\* number of calls of readCoordsFromMics
NumCoordMics == 2
MaxMerges == 2
\* longest sequence of coordinates written to a star file
MaxRecords == 2

VARIABLES
    cfg,        \* the protocol parameters (form values), fixed during a run
    batches,    \* the micrograph lists handed to _pickMicrographList
    phase,      \* position of the run: idle, invalid, converting, picking, done, aborted
    extra,      \* the extra directory (references.mrcs): name -> content
    outDir,     \* getMicrographsDir(): "none" before makePath, then name -> content
    tmp,        \* the tmp directory: path of a batch directory -> (name -> content)
    pc,         \* per batch: position inside _pickMicrographList
    pat,        \* per batch: index of the glob pattern being moved
    todo,       \* per batch: the rest of the list of the current glob, still to move
    produced,   \* per batch: names the picker wrote (history)
    moved,      \* per batch: names the batch moved to outDir (history)
    fault,      \* per batch: none, invoke (runGautomatch raised), harvest (move/clean raised)
    calls,      \* per batch: the picker invocations made, as passed to runJob
    errorLog,   \* the self.error(...) messages: the micrograph file lists reported
    refWrites,  \* number of writeStack calls of the references
    touched,    \* pairs <<tmp path, batch>>: the batch created, read, wrote or deleted the path
    argsOut,    \* result of the last getArgs call of the argument-builder runs
    pathOut,    \* result of the last working-directory path computation
    coordSets,  \* the coordinate sets and the star files the merges read
    starIo      \* a star file being written by CoordStarWriter and read back

vars == <<cfg, batches, phase, extra, outDir, tmp, pc, pat, todo, produced,
          moved, fault, calls, errorLog, refWrites, touched, argsOut,
          pathOut, coordSets, starIo>>

(***************************************************************************)
(* Names: sequences of string tokens.                                      *)
(***************************************************************************)
DigitStr == <<"0", "1", "2", "3", "4", "5", "6", "7", "8", "9">>

\* '%d' % n for n >= 0
RECURSIVE Decimal(_)
Decimal(n) ==
    IF n < 10 THEN <<DigitStr[n + 1]>>
    ELSE Decimal(n \div 10) \o <<DigitStr[(n % 10) + 1]>>

RECURSIVE ZeroPad(_, _)
ZeroPad(s, w) == IF Len(s) >= w THEN s ELSE ZeroPad(<<"0">> \o s, w)

\* '%06d' % n
Fmt06d(n) == ZeroPad(Decimal(n), 6)

Last(s) == s[Len(s)]

\* str.endswith for token sequences
EndsWith(name, suffix) ==
    /\ Len(name) >= Len(suffix)
    /\ SubSeq(name, Len(name) - Len(suffix) + 1, Len(name)) = suffix

\* pwutils.removeBaseExt: the file name without directory and extension
removeBaseExt(fn) == SubSeq(fn, 1, Len(fn) - 1)

\* pwutils.replaceBaseExt(fn, 'mrc')
replaceBaseExt(fn) == removeBaseExt(fn) \o <<".mrc">>

\* The input micrographs: object id i has file name MicFileName(i); base
\* names are unique within the run.  Micrograph 2 is named like a debug
\* image (b_bg.mrc), micrograph 3 is not in .mrc format.
MicIds == 1..NumMics

MicFileName(i) ==
    CASE i = 1 -> <<"a", ".mrc">>
      [] i = 2 -> <<"b", "_bg", ".mrc">>
      [] i = 3 -> <<"c", ".tif">>
      [] OTHER -> <<"m">> \o Decimal(i) \o <<".mrc">>

AutomatchSuffix == <<"_automatch", ".star">>
RejectedSuffix == <<"_rejected", ".star">>
RubbishSuffix == <<"_rubbish", ".star">>
DefectsName == <<"defects", ".star">>
ReferencesFn == <<"references", ".mrcs">>

\* debugSuffixes of _pickMicrographList, in the order of the list, each
\* with the write flag of the protocol that makes the picker produce it
debugSuffixes ==
    << <<"_ccmax", ".mrc">>, <<"_pref", ".mrc">>, <<"_bg", ".mrc">>,
       <<"_bgfree", ".mrc">>, <<"_lsigma", ".mrc">>, <<"_mask", ".mrc">> >>

\* (variant) the harvest moves the coordinate files only
PatternsStarOnly == << <<".star">> >>

\* (variant) the harvest globs the two coordinate suffixes of the picker
PatternsPickerStars ==
    << <<"_automatch", ".star">>, <<"_rejected", ".star">> >> \o debugSuffixes

\* the glob patterns of the harvest, in order: '*.star', then debugSuffixes
Patterns == << <<".star">> >> \o debugSuffixes

\* the names of a directory that match '*' + suffix
Glob(dir, suffix) == {n \in DOMAIN dir : EndsWith(n, suffix)}

\* a set of names as a list: the order in which the file system lists them
\* (not specified; one order per set of names)
Listing(S) ==
    LET list[T \in SUBSET S] ==
            IF T = {} THEN <<>>
            ELSE LET n == CHOOSE x \in T : TRUE IN <<n>> \o list[T \ {n}]
    IN list[S]

\* glob(os.path.join(dir, '*' + suffix)): the list of matching names
GlobList(dir, suffix) == Listing(Glob(dir, suffix))

(***************************************************************************)
(* Directories: functions from name to content.                            *)
(***************************************************************************)
EmptyDir == [n \in {} |-> [kind |-> "none", id |-> 0]]

\* (variant) the file does not arrive
PutLost(dir, n, c) == dir

Put(dir, n, c) == [x \in (DOMAIN dir) \cup {n} |-> IF x = n THEN c ELSE dir[x]]

Del(dir, n) == [x \in (DOMAIN dir) \ {n} |-> dir[x]]

Content(k, i) == [kind |-> k, id |-> i]

(***************************************************************************)
(* The protocol parameters.  Float parameters are kept in hundredths       *)
(* (threshold 0.18 is 18, sampling rate 4.4 is 440); pointer parameters    *)
(* (inputReferences, inputBadCoords, inputDefects) by whether .get() is    *)
(* truthy.                                                                 *)
(***************************************************************************)
DefaultCfg ==
    [ samplingRate |-> 440, angStep |-> 5, lowPass |-> 30, highPass |-> 1000,
      inputReferences |-> FALSE, refSamplingRate |-> 440, refXDim |-> 100,
      invertTemplatesContrast |-> TRUE, threshold |-> 10, particleSize |-> -1,
      advanced |-> TRUE, boxSize |-> -1, minDist |-> 300, speed |-> 2,
      localSigmaCutoff |-> 120, localSigmaDiam |-> 100,
      localAvgMin |-> -100, localAvgMax |-> 100, localAvgDiam |-> 100,
      preFilt |-> FALSE, prelowPass |-> 8, prehighPass |-> 1000,
      activeVersion |-> "0.56", detectIce |-> TRUE, templateNorm |-> 1,
      doBandpass |-> TRUE,
      exclusive |-> FALSE, inputBadCoords |-> FALSE, inputDefects |-> FALSE,
      writeCC |-> FALSE, writeFilt |-> FALSE, writeBg |-> FALSE,
      writeBgSub |-> FALSE, writeSigma |-> FALSE, writeMsk |-> FALSE,
      numberOfMpi |-> 1, numberOfThreads |-> 1, gpuList |-> 1 ]

Max(a, b) == IF a >= b THEN a ELSE b

\* 'return 100' of _getBoxSize and 'return 250' of _getDiameter
DefaultBoxSize == 100
DefaultDiameter == 250

\* (variant) the boxSize parameter is returned as it is
_getBoxSizeUnchecked(c) == c.boxSize

_getBoxSize(c) ==
    IF c.boxSize # 0 /\ c.boxSize > 0 THEN c.boxSize
    ELSE IF c.inputReferences /\ c.refXDim # 0 THEN c.refXDim
    ELSE DefaultBoxSize

\* (variant) the diameter of the references rounded to the nearest integer
_getDiameterRounded(c) ==
    IF c.particleSize # 0 /\ c.particleSize > 0 THEN 2 * c.particleSize
    ELSE IF c.inputReferences
         THEN (3 * c.refXDim * c.refSamplingRate + 200) \div 400
         ELSE DefaultDiameter

\* int(0.75 * dim * pix), pix in hundredths: the integer part of
\* 3 * dim * pix / 400
_getDiameter(c) ==
    IF c.particleSize # 0 /\ c.particleSize > 0 THEN 2 * c.particleSize
    ELSE IF c.inputReferences
         THEN (3 * c.refXDim * c.refSamplingRate) \div 400
         ELSE DefaultDiameter

_getReferencesFn(c) == IF c.inputReferences THEN ReferencesFn ELSE <<>>

_getDefectsFn == DefectsName

\* (variant) _validate without the check of the exclusive picking inputs
_validateNoExclusive(c) ==
    (IF ~(c.localAvgMin < c.localAvgMax)
        THEN <<"Wrong values of local average cut-off!">> ELSE <<>>)
    \o
    (IF Max(c.numberOfMpi, c.numberOfThreads) < c.gpuList
        THEN <<"Multiple GPUs can not be used by a single process. ">>
        ELSE <<>>)

\* (variant) _validate without the check of the local average cut-offs
_validateNoLocalAvg(c) ==
    (IF c.exclusive /\ ~c.inputBadCoords /\ ~c.inputDefects
        THEN <<"You have to provide at least one set of coordinates ",
               "for exclusive picking!">>
        ELSE <<>>)
    \o
    (IF Max(c.numberOfMpi, c.numberOfThreads) < c.gpuList
        THEN <<"Multiple GPUs can not be used by a single process. ">>
        ELSE <<>>)

\* _validate: the list of error messages
_validate(c) ==
    (IF ~(c.localAvgMin < c.localAvgMax)
        THEN <<"Wrong values of local average cut-off!">> ELSE <<>>)
    \o
    (IF c.exclusive /\ ~c.inputBadCoords /\ ~c.inputDefects
        THEN <<"You have to provide at least one set of coordinates ",
               "for exclusive picking!">>
        ELSE <<>>)
    \o
    (IF Max(c.numberOfMpi, c.numberOfThreads) < c.gpuList
        THEN <<"Multiple GPUs can not be used by a single process. ">>
        ELSE <<>>)

Flag(f) == <<f>>
Opt(f, v) == <<f, v>>
If(b, s) == IF b THEN s ELSE <<>>
Bit(b) == IF b THEN 1 ELSE 0

\* (variant) the manual parameters are passed whatever 'advanced' is
getArgsManualAlways(c, mindist) ==
    << Opt("--speed", c.speed), Opt("--boxsize", _getBoxSize(c)) >>
    \o If(mindist, << Opt("--min_dist", c.minDist) >>)
    \o << Opt("--lsigma_cutoff", c.localSigmaCutoff),
          Opt("--lsigma_D", c.localSigmaDiam),
          Opt("--lave_max", c.localAvgMax),
          Opt("--lave_min", c.localAvgMin),
          Opt("--lave_D", c.localAvgDiam) >>

\* the 'if not self.advanced:' block of getArgs
getArgsManual(c, mindist) ==
    If(~c.advanced,
       << Opt("--speed", c.speed), Opt("--boxsize", _getBoxSize(c)) >>
       \o If(mindist, << Opt("--min_dist", c.minDist) >>)
       \o << Opt("--lsigma_cutoff", c.localSigmaCutoff),
             Opt("--lsigma_D", c.localSigmaDiam),
             Opt("--lave_max", c.localAvgMax),
             Opt("--lave_min", c.localAvgMin),
             Opt("--lave_D", c.localAvgDiam) >>)

\* (variant) the exclusion flags follow 'exclusive' alone
getArgsExclusiveUnchecked(c) ==
    If(c.exclusive,
       << Flag("--exclusive_picking"),
          Opt("--excluded_suffix", RubbishSuffix),
          Opt("--global_excluded_box", _getDefectsFn) >>)

\* the 'if self.exclusive:' block of getArgs
getArgsExclusive(c) ==
    If(c.exclusive,
       If(c.inputBadCoords,
          << Flag("--exclusive_picking"),
             Opt("--excluded_suffix", RubbishSuffix) >>)
       \o If(c.inputDefects,
             << Opt("--global_excluded_box", _getDefectsFn) >>))

\* (variant) the pre-filter bounds are passed whatever 'preFilt' is
getArgsPreFiltBounds(c) ==
    If(c.preFilt, << Flag("--do_pre_filter") >>)
    \o << Opt("--pre_lp", c.prelowPass), Opt("--pre_hp", c.prehighPass) >>

\* the 'if self.preFilt:' block of getArgs
getArgsPreFilt(c) ==
    If(c.preFilt,
       << Flag("--do_pre_filter"), Opt("--pre_lp", c.prelowPass),
          Opt("--pre_hp", c.prehighPass) >>)

\* getArgs: the argument string as the sequence of its options, each
\* <<flag>> or <<flag, value>>
getArgs(c, threshold, mindist) ==
    << Opt("--apixM", c.samplingRate),
       Opt("--ang_step", c.angStep),
       Opt("--diameter", _getDiameter(c)),
       Opt("--lp", c.lowPass),
       Opt("--hp", c.highPass),
       Opt("--gid", "%(GPU)s") >>
    \o If(c.inputReferences, << Opt("--apixT", c.refSamplingRate) >>)
    \o If(~c.invertTemplatesContrast, << Flag("--dont_invertT") >>)
    \o If(threshold, << Opt("--cc_cutoff", c.threshold) >>)
    \o getArgsManual(c, mindist)
    \o getArgsPreFilt(c)
    \o If(c.activeVersion # "0.53",
          << Opt("--detect_ice", Bit(c.detectIce)),
             Opt("--T_norm_type", c.templateNorm),
             Opt("--do_bandpass", Bit(c.doBandpass)) >>)
    \o getArgsExclusive(c)
    \o If(c.writeCC, << Flag("--write_ccmax_mic") >>)
    \o If(c.writeFilt, << Flag("--write_pref_mic") >>)
    \o If(c.writeBg, << Flag("--write_bg_mic") >>)
    \o If(c.writeBgSub, << Flag("--write_bgfree_mic") >>)
    \o If(c.writeSigma, << Flag("--write_lsigma_mic") >>)
    \o If(c.writeMsk, << Flag("--write_mic_mask") >>)

\* _getPickArgs: the arguments of the picking steps of a run
_getPickArgs(c) == getArgs(c, TRUE, TRUE)

\* autopickCommand of the picker wizard: pickCmd, that is
\* getArgs(threshold=False, mindist=False), then ' --cc_cutoff
\* %(threshold)' and, when not advanced, ' --min_dist %(mindist)'
WizardCmd(c) ==
    getArgs(c, FALSE, FALSE)
    \o << Opt("--cc_cutoff", "%(threshold)") >>
    \o If(~c.advanced, << Opt("--min_dist", "%(mindist)") >>)

HasFlag(args, f) == \E i \in 1..Len(args) : args[i][1] = f

\* the debug suffixes the picker writes for a configuration: writeCC,
\* writeFilt, writeBg, writeBgSub, writeSigma, writeMsk in the order of
\* debugSuffixes
DebugWritten(c) ==
    {debugSuffixes[k] : k \in {k \in 1..6 :
        << c.writeCC, c.writeFilt, c.writeBg, c.writeBgSub, c.writeSigma,
           c.writeMsk >>[k]}}

(***************************************************************************)
(* The run: batches of micrographs, each picked by one call of             *)
(* _pickMicrographList.                                                    *)
(***************************************************************************)
RECURSIVE SortedSeq(_)
SortedSeq(S) ==
    IF S = {} THEN <<>>
    ELSE LET m == CHOOSE x \in S : \A y \in S : x <= y
         IN <<m>> \o SortedSeq(S \ {m})

Interval(a, b) == [i \in 1..(b - a + 1) |-> a + i - 1]

\* the micrograph lists of a run cut after the ids in cuts
BatchLists(cuts) ==
    LET st == SortedSeq({1} \cup {c + 1 : c \in cuts})
    IN [k \in 1..Len(st) |->
            Interval(st[k], IF k < Len(st) THEN st[k + 1] - 1 ELSE NumMics)]

Batches == DOMAIN batches

\* (variant) one scratch directory name whatever the micrograph
_getMicrographDirShared(objId) == <<"mic_tmp">>

\* _getMicrographDir: self._getTmpPath('mic_%06d' % mic.getObjId())
_getMicrographDir(objId) == <<"mic_">> \o Fmt06d(objId)

\* micPath of _pickMicrographList for a list of object ids
MicPath(micList) ==
    _getMicrographDir(micList[1])
    \o (IF Len(micList) > 1 THEN <<"-">> \o Fmt06d(micList[Len(micList)])
        ELSE <<>>)

micPath(b) == MicPath(batches[b])

\* micFnList of _pickMicrographList
micFnList(b) == [i \in 1..Len(batches[b]) |-> MicFileName(batches[b][i])]

\* outMic of runGautomatch for the i-th micrograph of the batch
outMic(b, i) == replaceBaseExt(micFnList(b)[i])

\* fnCoords of _pickMicrographList for the i-th micrograph of the batch
fnCoords(b, i) == removeBaseExt(micFnList(b)[i]) \o RubbishSuffix

\* (variant) a batch whose picker never returns gives its thread back
ActiveUnlessWedged == {"stage", "job", "unstage", "move", "clean"}

\* the positions of a picking step that holds a thread of the executor;
\* "wedged" is a step inside a runJob that never returns
Active == {"stage", "job", "unstage", "move", "clean", "wedged"}
Running == {b \in Batches : pc[b] \in Active}

\* (variant) no try/except: the exception leaves _pickMicrographList
ExceptClauseNoCatch(log, fns, t, path) ==
    [caught |-> FALSE, log |-> log, tmp |-> t]

\* (variant) the exception is swallowed without a message
ExceptClauseNoLog(log, fns, t, path) ==
    [caught |-> TRUE, log |-> log, tmp |-> t]

\* (variant) the except clause removes the batch directory
ExceptClauseClean(log, fns, t, path) ==
    [caught |-> TRUE, log |-> log \cup {fns},
     tmp |-> [q \in (DOMAIN t) \ {path} |-> t[q]]]

\* the except clause of _pickMicrographList, entered with log the
\* messages reported so far, fns the micFnList of the batch and t the tmp
\* directory: the exception is caught, self.error reports the micrograph
\* file names, and nothing on disk is touched
ExceptClause(log, fns, t, path) ==
    [caught |-> TRUE, log |-> log \cup {fns}, tmp |-> t]

\* an exception raised inside the try block of batch b, the tmp directory
\* being t at that moment
Raise(b, kind, t) ==
    LET h == ExceptClause(errorLog, micFnList(b), t, micPath(b))
    IN /\ errorLog' = h.log
       /\ tmp' = h.tmp
       /\ fault' = [fault EXCEPT ![b] = kind]
       /\ IF h.caught
          THEN pc' = [pc EXCEPT ![b] = "failed"] /\ phase' = phase
          ELSE pc' = [pc EXCEPT ![b] = "raised"] /\ phase' = "aborted"

\* the environment may still make a step of a batch fail
FaultsLeft == Cardinality({b \in Batches : fault[b] # "none"}) < MaxFaults

Touch(b) == touched' = touched \cup {<<micPath(b), b>>}

HasDir(b) == micPath(b) \in DOMAIN tmp
Dir(b) == tmp[micPath(b)]
SetDir(b, d) == tmp' = [tmp EXCEPT ![micPath(b)] = d]

PutAll(dir, names, c) ==
    [x \in (DOMAIN dir) \cup names |-> IF x \in names THEN c ELSE dir[x]]

\* (variant) the files are left where they are
DelAllSkipped(dir, names) == dir

DelAll(dir, names) == [x \in (DOMAIN dir) \ names |-> dir[x]]

\* dir with, for every i in is, file name[i] written with content c[i]
PutEach(dir, is, name, c) ==
    [x \in (DOMAIN dir) \cup {name[i] : i \in is} |->
        LET ws == {i \in is : name[i] = x}
        IN IF ws = {} THEN dir[x]
           ELSE c[CHOOSE i \in ws : \A j \in ws : j <= i]]

(***************************************************************************)
(* The configurations and batchings of the runs explored.                  *)
(***************************************************************************)
\* <<exclusive, inputBadCoords set, inputDefects set>>
ExclusiveChoices ==
    { <<FALSE, FALSE, FALSE>>, <<FALSE, TRUE, TRUE>>, <<TRUE, FALSE, FALSE>>,
      <<TRUE, TRUE, FALSE>>, <<TRUE, FALSE, TRUE>>, <<TRUE, TRUE, TRUE>> }

\* <<inputReferences set, writeBg>>
OutputChoices == { <<FALSE, FALSE>>, <<TRUE, TRUE>> }

RunCfgs ==
    {[DefaultCfg EXCEPT !.exclusive = ex[1], !.inputBadCoords = ex[2],
                        !.inputDefects = ex[3], !.inputReferences = o[1],
                        !.writeBg = o[2], !.localAvgMin = lmin,
                        !.numberOfThreads = th, !.gpuList = g] :
        ex \in ExclusiveChoices, o \in OutputChoices, lmin \in {-100, 100},
        th \in 1..MaxThreads, g \in {1, MaxThreads + 1}}

Init ==
    /\ cfg \in RunCfgs
    /\ batches \in {BatchLists(cuts) : cuts \in SUBSET (1..(NumMics - 1))}
    /\ phase = "idle"
    /\ extra = EmptyDir
    /\ outDir = EmptyDir
    /\ tmp = [p \in {} |-> EmptyDir]
    /\ pc = [b \in DOMAIN batches |-> "pending"]
    /\ pat = [b \in DOMAIN batches |-> 0]
    /\ todo = [b \in DOMAIN batches |-> <<>>]
    /\ produced = [b \in DOMAIN batches |-> {}]
    /\ moved = [b \in DOMAIN batches |-> {}]
    /\ fault = [b \in DOMAIN batches |-> "none"]
    /\ calls = [b \in DOMAIN batches |-> <<>>]
    /\ errorLog = {}
    /\ refWrites = 0
    /\ touched = {}
    /\ argsOut = <<>>
    /\ pathOut = <<>>
    /\ coordSets = <<>>
    /\ starIo = <<>>

\* launching the protocol: the executor runs _validate first and starts
\* the steps only when it returns no error
Launch ==
    /\ phase = "idle"
    /\ phase' = IF _validate(cfg) = <<>> THEN "converting" ELSE "invalid"
    /\ UNCHANGED <<cfg, batches, extra, outDir, tmp, pc, pat, todo,
                   produced, moved, fault, calls, errorLog, refWrites,
                   touched, argsOut, pathOut, coordSets, starIo>>

\* convertReferences: 'if refStack:' writes the stack
WritesStack(refStack) == refStack # <<>>

\* convertInputStep
ConvertInputStep ==
    /\ phase = "converting"
    /\ LET refStack == _getReferencesFn(cfg)
       IN /\ extra' = IF WritesStack(refStack)
                      THEN Put(extra, refStack, Content("refs", 0))
                      ELSE extra
          /\ refWrites' = IF WritesStack(refStack) THEN refWrites + 1
                          ELSE refWrites
    /\ outDir' = IF cfg.exclusive /\ cfg.inputDefects
                 THEN Put(outDir, _getDefectsFn, Content("defects", 0))
                 ELSE outDir
    /\ phase' = "picking"
    /\ UNCHANGED <<cfg, batches, tmp, pc, pat, todo, produced, moved,
                   fault, calls, errorLog, touched, argsOut, pathOut, coordSets, starIo>>

\* (variant) the picking steps do not wait for convertInputStep
ConvertDoneEarly(ph) == ph \in {"converting", "picking"}

\* the prerequisite of the picking steps: the step returned by
\* _insertInitialSteps has finished
ConvertDone(ph) == ph = "picking"

\* a picking step starts: _pickMicrographList up to the try block, that
\* is makePath(micPath) and the 'for mic in micList' loop that writes the
\* _rubbish.star files
Dispatch(b) ==
    /\ ConvertDone(phase)
    /\ pc[b] = "pending"
    /\ Cardinality(Running) < cfg.numberOfThreads
    /\ LET dir == IF HasDir(b) THEN Dir(b) ELSE EmptyDir
           rub == IF cfg.exclusive /\ cfg.inputBadCoords
                  THEN DOMAIN batches[b] ELSE {}
           name == [i \in rub |-> fnCoords(b, i)]
           c == [i \in rub |-> Content("rubbish", batches[b][i])]
           new == PutEach(dir, rub, name, c)
       IN tmp' = [p \in (DOMAIN tmp) \cup {micPath(b)} |->
                      IF p = micPath(b) THEN new ELSE tmp[p]]
    /\ pc' = [pc EXCEPT ![b] = "stage"]
    /\ Touch(b)
    /\ UNCHANGED <<cfg, batches, phase, extra, outDir, pat, todo, produced,
                   moved, fault, calls, errorLog, refWrites, argsOut,
                   pathOut, coordSets, starIo>>

\* (variant) every micrograph is converted, the .mrc ones too
StagedConverted(b, i) == Content("conv", batches[b][i])

\* the content runGautomatch puts at outMic: a link to the micrograph when
\* its name ends in .mrc, a converted copy otherwise
Staged(b, i) ==
    Content(IF EndsWith(micFnList(b)[i], <<".mrc">>) THEN "link" ELSE "conv",
            batches[b][i])

\* the first loop of runGautomatch for the micrographs is of the batch
StageInto(b, dir, is) ==
    LET name == [i \in is |-> outMic(b, i)]
        c == [i \in is |-> Staged(b, i)]
    IN PutEach(dir, is, name, c)

\* the first loop of runGautomatch: every micrograph is linked or converted
StageMics(b) ==
    /\ pc[b] = "stage"
    /\ IF ~HasDir(b)
       THEN Raise(b, "invoke", tmp)
       ELSE /\ SetDir(b, StageInto(b, Dir(b), DOMAIN batches[b]))
            /\ pc' = [pc EXCEPT ![b] = "job"]
            /\ UNCHANGED <<phase, fault, errorLog>>
    /\ Touch(b)
    /\ UNCHANGED <<cfg, batches, extra, outDir, pat, todo, produced, moved,
                   calls, refWrites, argsOut, pathOut, coordSets, starIo>>

\* ih.convert raises at the i-th micrograph (an unreadable file): the
\* micrographs before it are staged and runGautomatch raises
ConvertFail(b) ==
    /\ pc[b] = "stage"
    /\ FaultsLeft
    /\ HasDir(b)
    /\ \E i \in DOMAIN batches[b] :
         /\ ~EndsWith(micFnList(b)[i], <<".mrc">>)
         /\ Raise(b, "invoke",
                  [tmp EXCEPT ![micPath(b)] = StageInto(b, @, 1..(i - 1))])
    /\ Touch(b)
    /\ UNCHANGED <<cfg, batches, extra, outDir, pat, todo, produced, moved,
                   calls, refWrites, argsOut, pathOut, coordSets, starIo>>

\* the command line of runGautomatch: ' %s/*.mrc' % workDir, ' -T %s' %
\* refStack when refStack is not None, then extraArgs
runGautomatchArgs(refStack, workDir, extraArgs) ==
    << Opt("*.mrc", workDir) >>
    \o If(refStack # <<>>, << Opt("-T", refStack) >>)
    \o extraArgs

\* What the picker may write for one input micrograph: nothing when it did
\* not get to it, else the debug images the write flags ask for and the
\* coordinate files of one of StarChoices.
StarChoices == {{}, {AutomatchSuffix}, {AutomatchSuffix, RejectedSuffix}}
Processed == {[done |-> TRUE, stars |-> S] : S \in StarChoices}
Unprocessed == [done |-> FALSE, stars |-> {}]

\* the names the picker writes next to its inputs (the workDir/*.mrc
\* files) under outcome f
PickerFiles(inputs, f, dbg) ==
    UNION {{removeBaseExt(n) \o sfx :
                sfx \in f[n].stars \cup (IF f[n].done THEN dbg ELSE {})} :
           n \in inputs}

\* (variant) the picker is started a second time
InvokeTwice(b) ==
    LET args == runGautomatchArgs(_getReferencesFn(cfg), micPath(b),
                                  _getPickArgs(cfg))
    IN calls' = [calls EXCEPT ![b] = Append(Append(@, args), args)]

\* runJob(cls.getProgram(), args): the call is recorded in calls (history)
Invoke(b) ==
    calls' = [calls EXCEPT ![b] =
                Append(@, runGautomatchArgs(_getReferencesFn(cfg), micPath(b),
                                            _getPickArgs(cfg)))]

\* runJob returns: the picker processed every workDir/*.mrc and exited 0
RunJobOk(b) ==
    /\ pc[b] = "job"
    /\ HasDir(b)
    /\ LET inputs == Glob(Dir(b), <<".mrc">>)
       IN \E f \in [inputs -> Processed] :
            LET out == PickerFiles(inputs, f, DebugWritten(cfg))
            IN /\ SetDir(b, PutAll(Dir(b), out, Content("picker", b)))
               /\ produced' = [produced EXCEPT ![b] = @ \cup out]
    /\ Invoke(b)
    /\ pc' = [pc EXCEPT ![b] = "unstage"]
    /\ Touch(b)
    /\ UNCHANGED <<cfg, batches, phase, extra, outDir, pat, todo, moved,
                   fault, errorLog, refWrites, argsOut, pathOut, coordSets, starIo>>

\* runJob raises: the picker exited non-zero (or could not be started),
\* having processed any of the micrographs
RunJobFail(b) ==
    /\ pc[b] = "job"
    /\ FaultsLeft
    /\ IF HasDir(b)
       THEN LET inputs == Glob(Dir(b), <<".mrc">>)
            IN \E f \in [inputs -> Processed \cup {Unprocessed}] :
                 LET out == PickerFiles(inputs, f, DebugWritten(cfg))
                 IN /\ Raise(b, "invoke",
                             [tmp EXCEPT ![micPath(b)] =
                                PutAll(@, out, Content("picker", b))])
                    /\ produced' = [produced EXCEPT ![b] = @ \cup out]
       ELSE Raise(b, "invoke", tmp) /\ UNCHANGED produced
    /\ Invoke(b)
    /\ Touch(b)
    /\ UNCHANGED <<cfg, batches, extra, outDir, pat, todo, moved,
                   refWrites, argsOut, pathOut, coordSets, starIo>>

\* the first pattern after the k-th whose glob on dir is not empty, or
\* Len(Patterns) + 1: the 'for p ... for f in glob(...)' loops pass over
\* the patterns that match nothing
RECURSIVE NextPat(_, _)
NextPat(dir, k) ==
    IF k >= Len(Patterns) THEN Len(Patterns) + 1
    ELSE IF Glob(dir, Patterns[k + 1]) # {} THEN k + 1
    ELSE NextPat(dir, k + 1)

\* control after the k-th pattern is exhausted, on directory dir
Advance(b, dir, k) ==
    LET j == NextPat(dir, k)
    IN /\ pat' = [pat EXCEPT ![b] = j]
       /\ todo' = [todo EXCEPT ![b] =
                     IF j <= Len(Patterns) THEN GlobList(dir, Patterns[j])
                     ELSE <<>>]
       /\ pc' = [pc EXCEPT ![b] = IF j <= Len(Patterns) THEN "move" ELSE "clean"]

\* the second loop of runGautomatch: cleanPath(outMic) for every
\* micrograph; runGautomatch returns and the harvest starts with
\* glob('*.star')
UnstageMics(b) ==
    /\ pc[b] = "unstage"
    /\ LET dir == IF HasDir(b)
                  THEN DelAll(Dir(b), {outMic(b, i) : i \in DOMAIN batches[b]})
                  ELSE EmptyDir
       IN /\ tmp' = IF HasDir(b) THEN [tmp EXCEPT ![micPath(b)] = dir] ELSE tmp
          /\ Advance(b, dir, 0)
    /\ Touch(b)
    /\ UNCHANGED <<cfg, batches, phase, extra, outDir, produced, moved,
                   fault, calls, errorLog, refWrites, argsOut, pathOut, coordSets, starIo>>

\* pwutils.moveFile(f, self.getMicrographsDir()) for one file of the
\* current glob: the file is copied into the output directory and removed
\* from the batch directory
MoveFile(b) ==
    /\ pc[b] = "move"
    /\ LET f == Head(todo[b])
       IN IF HasDir(b) /\ f \in DOMAIN Dir(b)
          THEN LET dir == Del(Dir(b), f)
               IN /\ outDir' = Put(outDir, f, Dir(b)[f])
                  /\ SetDir(b, dir)
                  /\ moved' = [moved EXCEPT ![b] = @ \cup {f}]
                  /\ IF Len(todo[b]) = 1
                     THEN Advance(b, dir, pat[b])
                     ELSE /\ todo' = [todo EXCEPT ![b] = Tail(@)]
                          /\ UNCHANGED <<pc, pat>>
                  /\ UNCHANGED <<phase, fault, errorLog>>
          ELSE /\ Raise(b, "harvest", tmp)
               /\ UNCHANGED <<outDir, moved, todo, pat>>
    /\ Touch(b)
    /\ UNCHANGED <<cfg, batches, extra, produced, calls, refWrites,
                   argsOut, pathOut, coordSets, starIo>>

\* pwutils.cleanPath(micPath)
CleanDir(b) ==
    /\ pc[b] = "clean"
    /\ tmp' = [p \in (DOMAIN tmp) \ {micPath(b)} |-> tmp[p]]
    /\ pc' = [pc EXCEPT ![b] = "harvested"]
    /\ Touch(b)
    /\ UNCHANGED <<cfg, batches, phase, extra, outDir, pat, todo,
                   produced, moved, fault, calls, errorLog, refWrites,
                   argsOut, pathOut, coordSets, starIo>>

\* a move or the final cleanPath raises (the file system refuses it)
HarvestFail(b) ==
    /\ pc[b] \in {"move", "clean"}
    /\ FaultsLeft
    /\ Raise(b, "harvest", tmp)
    /\ UNCHANGED <<cfg, batches, extra, outDir, pat, todo,
                   produced, moved, calls, refWrites, touched, argsOut,
                   pathOut, coordSets, starIo>>

\* every picking step has returned: createOutputStep ('pass') ends the run
Finish ==
    /\ phase = "picking"
    /\ \A b \in Batches : pc[b] \in {"harvested", "failed"}
    /\ phase' = "done"
    /\ UNCHANGED <<cfg, batches, extra, outDir, tmp, pc, pat, todo,
                   produced, moved, fault, calls, errorLog, refWrites,
                   touched, argsOut, pathOut, coordSets, starIo>>

Next ==
    \/ Launch
    \/ ConvertInputStep
    \/ \E b \in Batches : Dispatch(b)
    \/ \E b \in Batches : StageMics(b)
    \/ \E b \in Batches : ConvertFail(b)
    \/ \E b \in Batches : RunJobOk(b)
    \/ \E b \in Batches : RunJobFail(b)
    \/ \E b \in Batches : UnstageMics(b)
    \/ \E b \in Batches : MoveFile(b)
    \/ \E b \in Batches : CleanDir(b)
    \/ \E b \in Batches : HarvestFail(b)
    \/ Finish

Spec == Init /\ [][Next]_vars

TypeOK == phase \in {"idle", "invalid", "converting", "picking", "done", "aborted"}

(***************************************************************************)
(* Properties of the run.                                                  *)
(***************************************************************************)
\* the _rubbish.star names _pickMicrographList writes for batch b
RubbishNames(b) ==
    IF cfg.exclusive /\ cfg.inputBadCoords
    THEN {fnCoords(b, i) : i \in DOMAIN batches[b]} ELSE {}

\* the staged input names of batch b
StagedNames(b) == {outMic(b, i) : i \in DOMAIN batches[b]}

\* the contents batch b writes: picker output, exclusion files, staged inputs
BatchContents(b) ==
    {Content("picker", b)}
    \cup {Content(k, batches[b][i]) :
            k \in {"rubbish", "link", "conv"}, i \in DOMAIN batches[b]}

Failed == {b \in Batches : fault[b] # "none"}
InvokeFailed == {b \in Batches : fault[b] = "invoke"}

InOutDir(b, names) ==
    \A n \in names : n \in DOMAIN outDir /\ outDir[n] = Content("picker", b)

\* C1: a failure of one batch's picker invocation is caught inside the
\* dispatch of that batch (the batch ends failed, the run is never
\* aborted), and when the run has ended every batch that met no failure
\* has been dispatched and harvested: each file its picker produced is in
\* the shared output directory.
C1_BatchFailureIsolated ==
    /\ phase # "aborted"
    /\ \A b \in InvokeFailed : pc[b] = "failed"
    /\ phase = "done" =>
         \A b \in Batches \ Failed :
            /\ pc[b] = "harvested"
            /\ calls[b] # <<>>
            /\ InOutDir(b, produced[b])

\* three batches, the second one's invocation failed, the output of the
\* first and the third is in the output directory
C1_Witness ==
    /\ phase = "done"
    /\ Len(batches) = 3
    /\ fault[2] = "invoke" /\ calls[2] # <<>>
    /\ pc[1] = "harvested" /\ produced[1] # {} /\ InOutDir(1, produced[1])
    /\ pc[3] = "harvested" /\ produced[3] # {} /\ InOutDir(3, produced[3])

\* C2 as stated: every batch whose invocation fails is marked failed and
\* recorded, and at the end of the run the recorded batches are exactly
\* those whose invocation failed.
C2_RecordedExactlyInvokeFailed ==
    /\ \A b \in InvokeFailed : pc[b] = "failed" /\ micFnList(b) \in errorLog
    /\ phase = "done" => errorLog = {micFnList(b) : b \in InvokeFailed}

\* C2 amended: every batch in which the invocation or a later move or
\* clean-up of the harvest raises ends failed and is reported by
\* self.error at that moment, and at every moment (so also at the end of
\* the run) the reported batches are exactly those batches.
C2_RecordedExactlyFailed ==
    /\ \A b \in Failed : pc[b] = "failed" /\ micFnList(b) \in errorLog
    /\ errorLog = {micFnList(b) : b \in Failed}

\* the run has ended with one failed invocation, and it is the one reported
C2_Witness ==
    /\ phase = "done"
    /\ \E b \in InvokeFailed : calls[b] # <<>> /\ errorLog = {micFnList(b)}

\* C3: once the invocation of a batch has failed, its working directory
\* exists with everything that was in it (exclusion files, staged inputs,
\* whatever the picker wrote), no later step changes it, and no file of
\* the batch is in the shared output directory.
C3_FailedDirKept ==
    /\ [](\A b \in InvokeFailed :
            /\ HasDir(b)
            /\ moved[b] = {}
            /\ (RubbishNames(b) \cup produced[b]) \subseteq DOMAIN Dir(b)
            /\ calls[b] # <<>> => StagedNames(b) \subseteq DOMAIN Dir(b)
            /\ \A n \in DOMAIN outDir : outDir[n] \notin BatchContents(b))
    /\ [][\A b \in InvokeFailed :
            /\ micPath(b) \in DOMAIN tmp'
            /\ tmp'[micPath(b)] = tmp[micPath(b)]]_vars

\* a failed invocation that left staged inputs, an exclusion file and
\* partial picker output behind, while another batch has been harvested
C3_Witness ==
    \E b \in InvokeFailed :
        /\ calls[b] # <<>> /\ produced[b] # {} /\ RubbishNames(b) # {}
        /\ \E b2 \in Batches : pc[b2] = "harvested"

\* C4: on a successful invocation the result files are moved while the
\* working directory exists, the directory is deleted only when every
\* file the picker produced has been moved, and a batch that completed has
\* no working directory and all its produced files in the output
\* directory.
C4_MoveThenClean ==
    /\ [](\A b \in Batches :
            pc[b] = "harvested" => ~HasDir(b) /\ InOutDir(b, produced[b]))
    /\ [][\A b \in Batches :
            /\ moved'[b] # moved[b] =>
                 HasDir(b) /\ pc[b] = "move" /\ calls[b] # <<>>
            /\ (HasDir(b) /\ micPath(b) \notin DOMAIN tmp') =>
                 /\ fault[b] = "none" /\ calls[b] # <<>>
                 /\ produced[b] \subseteq moved[b]
                 /\ moved'[b] = moved[b]]_vars

\* a completed batch whose picker wrote a coordinate file and a debug image
C4_Witness ==
    \E b \in Batches :
        /\ pc[b] = "harvested"
        /\ \E n \in produced[b] : EndsWith(n, AutomatchSuffix)
        /\ \E n \in produced[b] : EndsWith(n, <<"_bg", ".mrc">>)

\* the files batch b has put into the output directory by the end of its
\* dispatch: everything it globbed when harvested (the picker's files and
\* the exclusion files), else what it had moved when it failed
Harvest(b) ==
    IF pc[b] = "harvested" THEN produced[b] \cup RubbishNames(b) ELSE moved[b]

\* the content batch b gives to name n of Harvest(b)
HarvestContent(b, n) ==
    IF n \in RubbishNames(b)
    THEN Content("rubbish",
                 batches[b][CHOOSE i \in DOMAIN batches[b] : fnCoords(b, i) = n])
    ELSE Content("picker", b)

\* the output directory after conversion and then the batches k, k + 1,
\* ... one after another, each run to its end before the next starts
RECURSIVE OneAfterAnother(_, _)
OneAfterAnother(k, dir) ==
    IF k > Len(batches) THEN dir
    ELSE OneAfterAnother(k + 1,
            [n \in (DOMAIN dir) \cup Harvest(k) |->
                IF n \in Harvest(k) THEN HarvestContent(k, n) ELSE dir[n]])

Converted ==
    IF cfg.exclusive /\ cfg.inputDefects
    THEN Put(EmptyDir, DefectsName, Content("defects", 0)) ELSE EmptyDir

\* C6: whatever the interleaving of the dispatches of batches with
\* disjoint micrographs, no file name is moved into the output directory
\* by two batches, every batch directory is created, read, written and
\* deleted by one batch only and holds only that batch's files, and when
\* the run has ended the output directory is what the same batches, with
\* the same picker outcomes, leave when run one after another.
C6_ConcurrentDispatchIndependent ==
    /\ \A b1, b2 \in Batches : b1 # b2 => moved[b1] \cap moved[b2] = {}
    /\ \A t1, t2 \in touched : t1[1] = t2[1] => t1[2] = t2[2]
    /\ \A b \in Batches :
         HasDir(b) => \A n \in DOMAIN Dir(b) : Dir(b)[n] \in BatchContents(b)
    /\ \A b \in Batches : \A n \in moved[b] :
         n \in DOMAIN outDir /\ outDir[n] \in BatchContents(b)
    /\ phase = "done" => outDir = OneAfterAnother(1, Converted)

\* two batches are moving their files into the output directory at the
\* same time
C6_Witness ==
    \E b1, b2 \in Batches :
        /\ b1 # b2
        /\ pc[b1] = "move" /\ moved[b1] # {}
        /\ pc[b2] = "move" /\ moved[b2] # {}

HasOpt(args, o) == \E i \in 1..Len(args) : args[i] = o

\* C7: no batch is dispatched before convertInputStep has completed; the
\* reference stack is written once, by that step, when references are
\* supplied and never otherwise; every picker invocation gets that stack
\* as its -T argument, and no -T argument when there are no references.
C7_ReferencesOnceBeforeDispatch ==
    /\ (\E b \in Batches : pc[b] # "pending") =>
            phase \in {"picking", "done", "aborted"}
    /\ refWrites = IF cfg.inputReferences
                      /\ phase \in {"picking", "done", "aborted"}
                   THEN 1 ELSE 0
    /\ ReferencesFn \in DOMAIN extra <=> refWrites = 1
    /\ \A b \in Batches : \A k \in 1..Len(calls[b]) :
         /\ ReferencesFn \in DOMAIN extra <=> cfg.inputReferences
         /\ IF cfg.inputReferences
            THEN HasOpt(calls[b][k], Opt("-T", ReferencesFn))
            ELSE ~HasFlag(calls[b][k], "-T")

\* references supplied, written once, and two batches invoked with them
C7_Witness ==
    /\ cfg.inputReferences /\ refWrites = 1
    /\ \E b1, b2 \in Batches :
         /\ b1 # b2
         /\ calls[b1] # <<>> /\ HasOpt(calls[b1][1], Opt("-T", ReferencesFn))
         /\ calls[b2] # <<>> /\ HasOpt(calls[b2][1], Opt("-T", ReferencesFn))

\* the two invalid configurations of the claim
LocalAvgInvalid(c) == ~(c.localAvgMin < c.localAvgMax)
ExclusiveInvalid(c) == c.exclusive /\ ~c.inputBadCoords /\ ~c.inputDefects

\* C9: a run whose local-average min is not below max, or that asks for
\* exclusive picking without any exclusion input, stops at validation:
\* no batch is dispatched, the picker is never invoked and nothing is
\* written to the output directory (nor anywhere else).
C9_InvalidRunDoesNothing ==
    (LocalAvgInvalid(cfg) \/ ExclusiveInvalid(cfg)) =>
        /\ phase \in {"idle", "invalid"}
        /\ \A b \in Batches : pc[b] = "pending" /\ calls[b] = <<>>
        /\ outDir = EmptyDir /\ extra = EmptyDir /\ DOMAIN tmp = {}

\* a launched run rejected for exclusive picking without exclusion input
C9_Witness ==
    /\ phase = "invalid"
    /\ ExclusiveInvalid(cfg)
    /\ ~LocalAvgInvalid(cfg)

\* the fixed suffixes of the picker's result files
ResultSuffixes ==
    {AutomatchSuffix, RejectedSuffix} \cup {debugSuffixes[k] : k \in 1..6}

HasResultSuffix(n) == \E sfx \in ResultSuffixes : EndsWith(n, sfx)

\* C22: on a harvested batch the files moved into the output directory are
\* exactly the files the picker produced whose names end in one of the
\* fixed suffixes, and the _rubbish.star files the plugin wrote as picker
\* input are not moved there.
C22_MovedExactlyPickerResults ==
    \A b \in Batches :
        pc[b] = "harvested" =>
            /\ moved[b] = {n \in produced[b] : HasResultSuffix(n)}
            /\ \A n \in RubbishNames(b) : n \notin DOMAIN outDir

\* C22 (as the code has it): on a harvested batch the files moved into
\* the output directory are the files the picker produced, all of which
\* end in one of the fixed suffixes, and the _rubbish.star files the plugin
\* wrote for the batch, which '*.star' matches too; all are in the output
\* directory.
C22_MovedResultsAndRubbish ==
    \A b \in Batches :
        pc[b] = "harvested" =>
            /\ moved[b] = {n \in produced[b] : HasResultSuffix(n)}
                             \cup RubbishNames(b)
            /\ moved[b] \subseteq DOMAIN outDir

\* a harvested batch whose coordinate file, debug image and _rubbish.star
\* file are in the output directory
C22_Witness ==
    \E b \in Batches :
        /\ pc[b] = "harvested"
        /\ RubbishNames(b) # {}
        /\ RubbishNames(b) \subseteq DOMAIN outDir
        /\ \E n, m \in moved[b] \cap produced[b] :
              EndsWith(n, AutomatchSuffix) /\ EndsWith(m, debugSuffixes[3])

\* the dispatch of batch b has returned
Ended(b) == pc[b] \in {"harvested", "failed"}

\* what an invocation of batch b is passed: the glob of the batch
\* directory, the reference stack when there are references, the argument
\* string of the picking steps
ExpectedCall(b) ==
    << Opt("*.mrc", micPath(b)) >>
    \o (IF cfg.inputReferences THEN << Opt("-T", ReferencesFn) >> ELSE <<>>)
    \o getArgs(cfg, TRUE, TRUE)

\* C23: each dispatched batch invokes the picker exactly once, never zero
\* times and never more than once, and the invocation is passed the glob
\* of the batch directory, the reference stack when present and the full
\* argument string.
C23_InvokedExactlyOnce ==
    \A b \in Batches :
        /\ Len(calls[b]) <= 1
        /\ Ended(b) => Len(calls[b]) = 1
        /\ calls[b] # <<>> => calls[b][1] = ExpectedCall(b)

\* C23 (as the code has it): a batch invokes the picker at most once, with
\* the glob of its directory, the reference stack when present and the
\* full argument string; exactly once when every micrograph was staged,
\* and not at all when the staging of a micrograph raised, which ends the
\* batch failed before runJob.
C23_InvokedOnceUnlessStagingFails ==
    \A b \in Batches :
        /\ Len(calls[b]) <= 1
        /\ pc[b] \in {"pending", "stage", "job"} => calls[b] = <<>>
        /\ pc[b] \in {"unstage", "move", "clean", "harvested"} =>
              Len(calls[b]) = 1
        /\ (pc[b] = "failed" /\ fault[b] = "harvest") => Len(calls[b]) = 1
        /\ (pc[b] = "failed" /\ calls[b] = <<>>) =>
              /\ fault[b] = "invoke"
              /\ produced[b] = {}
              /\ moved[b] = {}
        /\ calls[b] # <<>> => calls[b][1] = ExpectedCall(b)

\* a batch of two micrographs harvested after one invocation with the
\* reference stack, and a batch that failed in staging without invocation
C23_Witness ==
    \E b, b2 \in Batches :
        /\ pc[b] = "harvested"
        /\ Len(batches[b]) = 2
        /\ Len(calls[b]) = 1
        /\ HasOpt(calls[b][1], Opt("-T", ReferencesFn))
        /\ pc[b2] = "failed"
        /\ calls[b2] = <<>>

\* every micrograph of batch b is in the batch directory as <base>.mrc: a
\* link to the original when its name ends in .mrc, a converted file
\* otherwise
AllStaged(b) ==
    /\ HasDir(b)
    /\ \A i \in DOMAIN batches[b] :
         LET fn == MicFileName(batches[b][i])
             mrc == removeBaseExt(fn) \o <<".mrc">>
         IN /\ mrc \in DOMAIN Dir(b)
            /\ Dir(b)[mrc] = Content(IF Last(fn) = ".mrc" THEN "link"
                                     ELSE "conv", batches[b][i])

\* C24: when the picker is about to be invoked for a batch, and at the
\* step that invokes it, every micrograph of the batch is in the batch
\* directory as <base>.mrc, linked when the input name ends in .mrc and
\* converted otherwise; none is missing.
C24_AllStagedAtInvocation ==
    /\ [](\A b \in Batches : pc[b] = "job" => AllStaged(b))
    /\ [][\A b \in Batches : calls'[b] # calls[b] => AllStaged(b)]_vars

\* the picker has just been invoked for a batch with a linked and a
\* converted micrograph
C24_Witness ==
    \E b \in Batches :
        /\ pc[b] = "unstage"
        /\ calls[b] # <<>>
        /\ \E i, j \in DOMAIN batches[b] :
              /\ Last(micFnList(b)[i]) = ".mrc"
              /\ Last(micFnList(b)[j]) # ".mrc"
              /\ Dir(b)[outMic(b, i)] = Content("link", batches[b][i])
              /\ Dir(b)[outMic(b, j)] = Content("conv", batches[b][j])

\* the exclusion flags of an argument string
HasExclusivePicking(args) == HasOpt(args, Flag("--exclusive_picking"))
HasGlobalExcludedBox(args) ==
    HasOpt(args, Opt("--global_excluded_box", _getDefectsFn))

\* a <base>_rubbish.star file is in the directory of batch b for every
\* micrograph of the batch
RubbishWritten(b) ==
    /\ HasDir(b)
    /\ \A i \in DOMAIN batches[b] :
          /\ fnCoords(b, i) \in DOMAIN Dir(b)
          /\ Dir(b)[fnCoords(b, i)] = Content("rubbish", batches[b][i])

\* the defects file is where convertInputStep writes it
DefectsWritten ==
    /\ _getDefectsFn \in DOMAIN outDir
    /\ outDir[_getDefectsFn] = Content("defects", 0)

\* the exclusion files that exist anywhere
ExclusionFiles ==
    {n \in DOMAIN outDir : outDir[n].kind \in {"rubbish", "defects"}}
    \cup UNION {{n \in DOMAIN tmp[p] : tmp[p][n].kind \in {"rubbish", "defects"}} :
                p \in DOMAIN tmp}

\* C26: an invocation whose arguments contain --exclusive_picking finds a
\* <base>_rubbish.star file in the batch directory for every micrograph of
\* the batch; one whose arguments contain --global_excluded_box finds the
\* defects file, that the conversion step wrote before any dispatch; and
\* when exclusive picking is disabled no invocation gets either flag and
\* no exclusion file is written, whatever exclusion inputs are set.
C26_ExclusionFlagsAndFilesAgree ==
    /\ [][\A b \in Batches :
            calls'[b] # calls[b] =>
               LET args == calls'[b][Len(calls'[b])]
               IN /\ HasExclusivePicking(args) => RubbishWritten(b)
                  /\ HasGlobalExcludedBox(args) => DefectsWritten]_vars
    /\ [](\A b \in Batches :
            (pc[b] # "pending" /\ HasGlobalExcludedBox(_getPickArgs(cfg)))
                => DefectsWritten)
    /\ [](~cfg.exclusive =>
            /\ ExclusionFiles = {}
            /\ \A b \in Batches : \A k \in 1..Len(calls[b]) :
                  /\ ~HasExclusivePicking(calls[b][k])
                  /\ ~HasGlobalExcludedBox(calls[b][k]))

\* the picker has been invoked with both flags, the _rubbish.star files of
\* the batch and the defects file being there
C26_Witness ==
    \E b \in Batches :
        /\ pc[b] = "unstage"
        /\ calls[b] # <<>>
        /\ HasExclusivePicking(calls[b][1])
        /\ HasGlobalExcludedBox(calls[b][1])
        /\ RubbishWritten(b)
        /\ DefectsWritten

\* the files of batch b in the output directory
Contributed(b) == {n \in DOMAIN outDir : outDir[n] \in BatchContents(b)}

\* C27: a batch that ends failed has contributed no file to the output
\* directory, whether the failure was raised by the picker invocation or
\* by a later move or cleanup step.
C27_FailedContributesNothing ==
    \A b \in Batches : pc[b] = "failed" => Contributed(b) = {}

\* C27 (as the code has it): a batch that failed in runGautomatch (staging
\* or invocation) has contributed no file to the output directory; a batch
\* that failed in a later move or in the cleanup has contributed the files
\* moved before the failure, which stay in the output directory.
C27_FailedKeepsWhatWasMoved ==
    \A b \in Batches :
        pc[b] = "failed" =>
            /\ Contributed(b) = moved[b]
            /\ fault[b] = "invoke" => moved[b] = {}
            /\ moved[b] # {} => fault[b] = "harvest"
            /\ fault[b] = "harvest" =>
                  /\ moved[b] \subseteq produced[b] \cup RubbishNames(b)
                  /\ HasDir(b) =>
                        \A n \in produced[b] \ moved[b] : n \in DOMAIN Dir(b)

\* a batch failed at a move after its coordinate file had been moved; a
\* debug image it produced is still in the batch directory
C27_Witness ==
    \E b \in Batches :
        /\ pc[b] = "failed"
        /\ fault[b] = "harvest"
        /\ \E n \in moved[b] : EndsWith(n, AutomatchSuffix) /\ n \in DOMAIN outDir
        /\ \E n \in produced[b] \ moved[b] : HasDir(b) /\ n \in DOMAIN Dir(b)

\* the staged input (link or converted copy) of a micrograph of batch b
IsStagedInput(b, c) ==
    \E i \in DOMAIN batches[b] :
        c \in {Content("link", batches[b][i]), Content("conv", batches[b][i])}

\* no staged input of batch b is left in its directory
Unstaged(b) ==
    HasDir(b) =>
        /\ \A n \in DOMAIN Dir(b) : ~IsStagedInput(b, Dir(b)[n])
        /\ StagedNames(b) \cap DOMAIN Dir(b) = {}

\* C30: after a successful picker invocation the link or converted copy
\* of every micrograph of the batch is removed from the batch directory
\* before any result file is moved, so that no input micrograph is ever
\* moved into the output directory, even when its name ends in a debug
\* suffix.
C30_InputsRemovedBeforeMove ==
    /\ [](\A b \in Batches :
            /\ pc[b] \in {"move", "clean"} => Unstaged(b)
            /\ moved[b] \cap StagedNames(b) = {})
    /\ [](\A n \in DOMAIN outDir : outDir[n].kind \notin {"link", "conv"})
    /\ [][\A b \in Batches : moved'[b] # moved[b] => Unstaged(b)]_vars

\* a batch with the micrograph b_bg.mrc has moved a _bg.mrc debug image
\* of the picker, and its staged b_bg.mrc is not in the output directory
C30_Witness ==
    \E b \in Batches :
        /\ \E i \in DOMAIN batches[b] :
              /\ EndsWith(outMic(b, i), debugSuffixes[3])
              /\ outMic(b, i) \notin DOMAIN outDir
        /\ \E n \in moved[b] :
              /\ EndsWith(n, debugSuffixes[3])
              /\ n \in DOMAIN outDir

(***************************************************************************)
(* Termination.  The run with a picker that may never return: runJob       *)
(* waits for the process without a timeout.  The steps of the protocol     *)
(* are sequential code that runs on, the executor starts a pending step    *)
(* when a thread is free, and a picker that does not wedge returns.        *)
(***************************************************************************)
LiveCfgs ==
    {c \in RunCfgs :
        /\ ~c.exclusive /\ ~c.inputBadCoords /\ ~c.inputDefects
        /\ ~c.inputReferences /\ c.gpuList = 1 /\ ~LocalAvgInvalid(c)}

InitLive == Init /\ cfg \in LiveCfgs

\* runJob is called and the picker never exits: the step stays inside
\* runJob
Wedge(b) ==
    /\ pc[b] = "job"
    /\ pc' = [pc EXCEPT ![b] = "wedged"]
    /\ Invoke(b)
    /\ Touch(b)
    /\ UNCHANGED <<cfg, batches, phase, extra, outDir, tmp, pat, todo,
                   produced, moved, fault, errorLog, refWrites, argsOut,
                   pathOut, coordSets, starIo>>

NextLive == Next \/ \E b \in Batches : Wedge(b)

\* the code of a picking step of batch b, the executor that starts it and
\* a picker that exits
StepOf(b) ==
    /\ b \in Batches
    /\ \/ Dispatch(b) \/ StageMics(b) \/ RunJobOk(b)
       \/ UnstageMics(b) \/ MoveFile(b) \/ CleanDir(b)

FairLive ==
    /\ WF_vars(ConvertInputStep)
    /\ WF_vars(Finish)
    /\ \A b \in MicIds : WF_vars(StepOf(b))

SpecLive == InitLive /\ [][NextLive]_vars /\ FairLive

Wedged == {b \in Batches : pc[b] = "wedged"}

\* batch b exists and its dispatch has returned
HasEnded(b) == b \in Batches /\ Ended(b)

\* batch b exists and has not been dispatched
Waiting(b) == b \in Batches /\ pc[b] = "pending"

\* no thread of the executor is left: every thread is held by a wedged
\* batch
NoThreadLeft == Cardinality(Wedged) >= cfg.numberOfThreads

\* the run ends unless a picker invocation does not return: with
\* Wedged = {} throughout, the run reaches done
DoneUnlessWedged == (phase = "picking") ~> (phase = "done" \/ Wedged # {})

\* a wedged batch stays wedged and the run does not reach done
WedgedForever ==
    /\ [][\A b \in Wedged : pc'[b] = "wedged"]_vars
    /\ [](Wedged # {} => phase # "done")

\* C25: if every picker invocation returns, every dispatched batch ends
\* harvested or failed and the run reaches done; a batch whose invocation
\* never returns stays where it is forever and blocks only itself: every
\* other batch still ends.
C25_WedgedBlocksOnlyItself ==
    /\ DoneUnlessWedged
    /\ WedgedForever
    /\ \A b \in MicIds :
          (phase = "picking" /\ b \in Batches) ~> (HasEnded(b) \/ b \in Wedged)

\* C25 (as the code has it): every batch of a converted run ends harvested
\* or failed and the run reaches done, unless a picker invocation does not
\* return.  A batch whose invocation never returns stays where it is
\* forever, the run never reaches done, and the batch keeps its thread:
\* the other batches end as long as a thread is left, and once every
\* thread is held by a wedged batch the batches not yet dispatched stay
\* pending forever.
C25_WedgedBlocksItsThread ==
    /\ DoneUnlessWedged
    /\ WedgedForever
    /\ \A b \in MicIds :
          (phase = "picking" /\ b \in Batches) ~>
              (\/ HasEnded(b)
               \/ b \in Wedged
               \/ Waiting(b) /\ NoThreadLeft)
    /\ [][\A b \in Batches :
            (pc[b] = "pending" /\ NoThreadLeft) =>
                (pc'[b] = "pending" /\ NoThreadLeft')]_vars

\* a batch has been harvested, a second is wedged in its invocation and
\* holds the only thread, a third waits for it
C25_Witness ==
    \E b, b2, b3 \in Batches :
        /\ pc[b] = "harvested"
        /\ pc[b2] = "wedged"
        /\ calls[b2] # <<>>
        /\ pc[b3] = "pending"
        /\ NoThreadLeft

(***************************************************************************)
(* The argument builder on its own: _validate, the arguments of the        *)
(* picking steps and the command of the picker wizard, for a range of      *)
(* parameter values.                                                       *)
(***************************************************************************)
ArgCfgs ==
    {[DefaultCfg EXCEPT !.advanced = adv, !.preFilt = pre,
                        !.exclusive = ex[1], !.inputBadCoords = ex[2],
                        !.inputDefects = ex[3], !.inputReferences = refs,
                        !.particleSize = ps, !.refXDim = dim,
                        !.refSamplingRate = pix, !.boxSize = box,
                        !.lowPass = band[1], !.highPass = band[2],
                        !.localAvgMin = lmin, !.activeVersion = ver,
                        !.prelowPass = plp[1], !.prehighPass = plp[2]] :
        adv \in BOOLEAN, pre \in BOOLEAN, ex \in ExclusiveChoices,
        refs \in BOOLEAN, ps \in {-1, 0, 250}, dim \in {10, 100},
        pix \in {130, 440}, box \in {-1, 150},
        plp \in {<<8, 1000>>, <<1000, 8>>},
        band \in {<<30, 1000>>, <<1000, 30>>}, lmin \in {-100, 100},
        ver \in {"0.53", "0.56"}}

NoArgs == [op |-> "none", args |-> <<>>, errors |-> <<>>]

IdleRun ==
    /\ batches = <<>>
    /\ phase = "idle"
    /\ extra = EmptyDir
    /\ outDir = EmptyDir
    /\ tmp = [p \in {} |-> EmptyDir]
    /\ pc = <<>>
    /\ pat = <<>>
    /\ todo = <<>>
    /\ produced = <<>>
    /\ moved = <<>>
    /\ fault = <<>>
    /\ calls = <<>>
    /\ errorLog = {}
    /\ refWrites = 0
    /\ touched = {}

runVars == <<batches, phase, extra, outDir, tmp, pc, pat, todo, produced,
             moved, fault, calls, errorLog, refWrites, touched>>

InitArgs ==
    /\ cfg \in ArgCfgs
    /\ IdleRun
    /\ argsOut = NoArgs
    /\ pathOut = <<>>
    /\ coordSets = <<>>
    /\ starIo = <<>>

\* the protocol is launched: _validate
Validate ==
    /\ argsOut.op = "none"
    /\ argsOut' = [op |-> "validate", args |-> <<>>, errors |-> _validate(cfg)]
    /\ UNCHANGED <<cfg, runVars, pathOut, coordSets, starIo>>

\* a launched protocol that passed _validate inserts its picking steps
\* with _getPickArgs
BuildPickArgs ==
    /\ argsOut.op = "validate"
    /\ argsOut.errors = <<>>
    /\ argsOut' = [op |-> "pick", args |-> _getPickArgs(cfg), errors |-> <<>>]
    /\ UNCHANGED <<cfg, runVars, pathOut, coordSets, starIo>>

\* the picker wizard is opened on the form (nothing is validated)
BuildWizardCmd ==
    /\ argsOut.op = "none"
    /\ argsOut' = [op |-> "wizard", args |-> WizardCmd(cfg), errors |-> <<>>]
    /\ UNCHANGED <<cfg, runVars, pathOut, coordSets, starIo>>

NextArgs == Validate \/ BuildPickArgs \/ BuildWizardCmd

SpecArgs == InitArgs /\ [][NextArgs]_vars

HasMsg(errors, m) == \E i \in 1..Len(errors) : errors[i] = m

Built == argsOut.op \in {"pick", "wizard"}

\* C8 as stated: building the arguments for a configuration with
\* exclusive picking and neither exclusion input fails (no argument string
\* comes out), and with at least one of them it succeeds.
C8_BuildFailsWithoutExclusionInput ==
    Built =>
        IF ExclusiveInvalid(cfg) THEN argsOut.args = <<>>
        ELSE argsOut.args # <<>>

\* C8 amended: a configuration with exclusive picking and neither
\* exclusion input is rejected by _validate (both messages of the check),
\* so no picking step of a run gets arguments built from it; getArgs
\* itself never fails, and called for such a configuration (by the picker
\* wizard) it returns an argument string without exclusion flags.  With
\* exclusive picking and at least one input, _validate reports nothing
\* about exclusive picking and the arguments carry --exclusive_picking
\* exactly when bad coordinates are set and --global_excluded_box exactly
\* when defects are set.
C8_ExclusiveValidation ==
    /\ argsOut.op = "validate" =>
         /\ HasMsg(argsOut.errors, "for exclusive picking!")
              <=> ExclusiveInvalid(cfg)
         /\ HasMsg(argsOut.errors,
                   "You have to provide at least one set of coordinates ")
              <=> ExclusiveInvalid(cfg)
    /\ argsOut.op = "pick" => ~ExclusiveInvalid(cfg)
    /\ Built =>
         /\ argsOut.args # <<>>
         /\ HasFlag(argsOut.args, "--exclusive_picking")
              <=> (cfg.exclusive /\ cfg.inputBadCoords)
         /\ HasFlag(argsOut.args, "--global_excluded_box")
              <=> (cfg.exclusive /\ cfg.inputDefects)

\* _validate has rejected exclusive picking without exclusion input
C8_Witness ==
    /\ argsOut.op = "validate"
    /\ ExclusiveInvalid(cfg)
    /\ HasMsg(argsOut.errors, "for exclusive picking!")

ManualFlags ==
    {"--speed", "--boxsize", "--min_dist", "--lsigma_cutoff", "--lsigma_D",
     "--lave_max", "--lave_min", "--lave_D"}

\* C10: the argument string built for the picker (the arguments of the
\* picking steps, and the command of the picker wizard) contains each of
\* the speed, box-size, min-distance, local-sigma and local-average flags
\* when 'advanced' is false and none of them when it is true.
C10_ManualFlagsIffNotAdvanced ==
    Built => \A f \in ManualFlags : HasFlag(argsOut.args, f) <=> ~cfg.advanced

\* arguments of a picking step built with 'advanced' false: all there
C10_Witness ==
    /\ argsOut.op = "pick"
    /\ ~cfg.advanced
    /\ \A f \in ManualFlags : HasFlag(argsOut.args, f)

\* the values the option f carries in args
OptValues(args, f) ==
    {args[i][2] : i \in {j \in 1..Len(args) : args[j][1] = f /\ Len(args[j]) = 2}}

\* C11: the built argument string contains --do_pre_filter, --pre_lp and
\* --pre_hp (with the stored bounds) when preFilt is set, and none of the
\* three when it is not, whatever the stored bounds are.
C11_PreFilterFlagsIffEnabled ==
    Built =>
        /\ \A f \in {"--do_pre_filter", "--pre_lp", "--pre_hp"} :
              HasFlag(argsOut.args, f) <=> cfg.preFilt
        /\ cfg.preFilt =>
              /\ OptValues(argsOut.args, "--pre_lp") = {cfg.prelowPass}
              /\ OptValues(argsOut.args, "--pre_hp") = {cfg.prehighPass}

\* arguments of a picking step built with the pre-filter on and bounds
\* other than the defaults
C11_Witness ==
    /\ argsOut.op = "pick"
    /\ cfg.preFilt
    /\ cfg.prelowPass # DefaultCfg.prelowPass
    /\ HasOpt(argsOut.args, Opt("--pre_lp", cfg.prelowPass))
    /\ HasFlag(argsOut.args, "--do_pre_filter")

\* 0.75 * dim * pix (pix in hundredths) as the fraction n / 400
DiameterNumerator(c) == 3 * c.refXDim * c.refSamplingRate

\* C12 as stated: the --diameter value is 2 x particleSize when that is
\* positive, else with references the nearest integer to
\* 0.75 x dimension x sampling rate, else 250.
C12_DiameterRounded ==
    Built =>
        \E d \in OptValues(argsOut.args, "--diameter") :
            IF cfg.particleSize > 0 THEN d = 2 * cfg.particleSize
            ELSE IF cfg.inputReferences
                 THEN /\ 2 * 400 * d - 400 <= 2 * DiameterNumerator(cfg)
                      /\ 2 * DiameterNumerator(cfg) < 2 * 400 * d + 400
                 ELSE d = 250

\* C12 amended: the --diameter value is 2 x particleSize when that is
\* positive, else with references the integer part of
\* 0.75 x dimension x sampling rate (the fraction is dropped, not
\* rounded), else 250.
C12_DiameterTruncated ==
    Built =>
        /\ Cardinality(OptValues(argsOut.args, "--diameter")) = 1
        /\ \A d \in OptValues(argsOut.args, "--diameter") :
            IF cfg.particleSize > 0 THEN d = 2 * cfg.particleSize
            ELSE IF cfg.inputReferences
                 THEN /\ 400 * d <= DiameterNumerator(cfg)
                      /\ DiameterNumerator(cfg) < 400 * (d + 1)
                 ELSE d = 250

\* references of 10 pixels at 1.30 A/pixel and no particle size:
\* 0.75 x 10 x 1.30 = 9.75 is passed as 9
C12_Witness ==
    /\ argsOut.op = "pick"
    /\ cfg.particleSize <= 0 /\ cfg.inputReferences
    /\ cfg.refXDim = 10 /\ cfg.refSamplingRate = 130
    /\ HasOpt(argsOut.args, Opt("--diameter", 9))

\* C13 as stated: a configuration whose lowPass is not below its highPass
\* is rejected by the validation and no arguments are built from it, and
\* one whose localAvgMin is not below its localAvgMax is rejected before
\* the arguments of the picking steps are built.
C13_BandPassValidated ==
    /\ argsOut.op = "validate" =>
         ((~(cfg.lowPass < cfg.highPass) \/ LocalAvgInvalid(cfg))
             => argsOut.errors # <<>>)
    /\ argsOut.op = "pick" =>
         (cfg.lowPass < cfg.highPass /\ ~LocalAvgInvalid(cfg))

\* C13 amended: _validate rejects a configuration whose localAvgMin is not
\* below its localAvgMax, so no picking step gets arguments built from it;
\* the band-pass bounds are not validated: whether _validate reports
\* something depends on the local average cut-offs, the exclusive picking
\* inputs and the GPU list only, and the built arguments carry lowPass and
\* highPass as --lp and --hp whatever their order.
C13_LocalAvgValidatedOnly ==
    /\ argsOut.op = "validate" =>
         /\ HasMsg(argsOut.errors, "Wrong values of local average cut-off!")
              <=> LocalAvgInvalid(cfg)
         /\ argsOut.errors = <<>> <=>
              /\ ~LocalAvgInvalid(cfg)
              /\ ~ExclusiveInvalid(cfg)
              /\ ~(Max(cfg.numberOfMpi, cfg.numberOfThreads) < cfg.gpuList)
    /\ argsOut.op = "pick" => ~LocalAvgInvalid(cfg)
    /\ Built =>
         /\ OptValues(argsOut.args, "--lp") = {cfg.lowPass}
         /\ OptValues(argsOut.args, "--hp") = {cfg.highPass}

\* a configuration with lowPass above highPass has passed _validate and
\* the arguments of its picking steps are built
C13_Witness ==
    /\ argsOut.op = "pick"
    /\ cfg.lowPass >= cfg.highPass
    /\ HasOpt(argsOut.args, Opt("--lp", cfg.lowPass))
    /\ HasOpt(argsOut.args, Opt("--hp", cfg.highPass))

(***************************************************************************)
(* The working-directory path on its own, for two micrograph lists.        *)
(***************************************************************************)
\* the lists of distinct object ids of 1..MaxObjId, of 1..MaxListLen ids
IdLists ==
    UNION {{l \in [1..n -> 1..MaxObjId] :
              \A i, j \in 1..n : i # j => l[i] # l[j]} : n \in 1..MaxListLen}

Ids(l) == {l[i] : i \in 1..Len(l)}

InitDir ==
    /\ cfg = DefaultCfg
    /\ IdleRun
    /\ argsOut = NoArgs
    /\ \E l1, l2 \in IdLists :
         /\ Ids(l1) \cap Ids(l2) = {}
         /\ pathOut = [done |-> FALSE, l1 |-> l1, l2 |-> l2,
                       p1 |-> <<>>, p2 |-> <<>>]
    /\ coordSets = <<>>
    /\ starIo = <<>>

\* two dispatches compute their micPath
ComputePaths ==
    /\ ~pathOut.done
    /\ pathOut' = [pathOut EXCEPT !.done = TRUE,
                                  !.p1 = MicPath(pathOut.l1),
                                  !.p2 = MicPath(pathOut.l2)]
    /\ UNCHANGED <<cfg, runVars, argsOut, coordSets, starIo>>

NextDir == ComputePaths

SpecDir == InitDir /\ [][NextDir]_vars

\* C5: the working directory paths of two batches with disjoint,
\* non-empty micrograph lists differ, whatever the sizes of the batches.
C5_DistinctWorkDirs ==
    pathOut.done => pathOut.p1 # pathOut.p2

\* paths computed for a one-micrograph batch and a longer one
C5_Witness ==
    /\ pathOut.done
    /\ Len(pathOut.l1) = 1 /\ Len(pathOut.l2) > 1
    /\ pathOut.p1 = <<"mic_", "0", "0", "0", "0", "0", "1">>
    /\ pathOut.p2 = <<"mic_", "0", "0", "0", "0", "0", "3", "-",
                      "0", "0", "0", "0", "0", "2">>

(***************************************************************************)
(* Coordinates: gautomatch/convert.py and readCoordsFromMics.              *)
(*                                                                         *)
(* A number in memory is an integer count of 10^-7, a float printed with   *)
(* six decimals is the integer count of 10^-6 it shows, so that printing   *)
(* rounds and parsing does not undo it.  A star file is its set of column  *)
(* labels and its rows; a value that may be None is a sequence of at most  *)
(* one element.                                                            *)
(***************************************************************************)
RLN_IMAGE_COORD_X == "rlnCoordinateX"
RLN_IMAGE_COORD_Y == "rlnCoordinateY"
RLN_ORIENT_PSI == "rlnAnglePsi"
RLN_PARTICLE_CLASS == "rlnClassNumber"
RLN_PARTICLE_AUTOPICK_FOM == "rlnAutopickFigureOfMerit"

\* the required labels and the optional ones
COOR_DICT == {RLN_IMAGE_COORD_X, RLN_IMAGE_COORD_Y}
COOR_EXTRA_LABELS ==
    {RLN_PARTICLE_AUTOPICK_FOM, RLN_PARTICLE_CLASS, RLN_ORIENT_PSI}

\* the five columns of CoordStarWriter.HEADER
HEADER ==
    {RLN_IMAGE_COORD_X, RLN_IMAGE_COORD_Y, RLN_ORIENT_PSI,
     RLN_PARTICLE_CLASS, RLN_PARTICLE_AUTOPICK_FOM}

\* (variant) a float printed without its decimals
FmtNoDecimals(v) == (v \div 10000000) * 1000000

\* '%0.6f' % v for v >= 0: the nearest count of 10^-6
Fmt06f(v) == (v + 5) \div 10

\* the float a printed number of six decimals is read as
ParseFloat(m) == 10 * m

\* the value of a column as the metadata library reads it: the class
\* number is an integer, the other columns are floats
RowValue(row, label) ==
    IF label = RLN_PARTICLE_CLASS THEN row[label] ELSE ParseFloat(row[label])

\* (variant) the class number is taken as the file has it
rowToCoordinateSameClass(labels, row) ==
    IF COOR_DICT \subseteq labels
    THEN << [ x |-> RowValue(row, RLN_IMAGE_COORD_X),
              y |-> RowValue(row, RLN_IMAGE_COORD_Y),
              attrs |-> [l \in COOR_EXTRA_LABELS \cap labels |->
                            RowValue(row, l)],
              micId |-> <<>> ] >>
    ELSE <<>>

\* rowToCoordinate: <<coord>>, or <<>> (None) when a required label is
\* missing; rowToObject sets x and y and every optional label the row
\* has, and the class number is incremented
rowToCoordinate(labels, row) ==
    IF COOR_DICT \subseteq labels
    THEN << [ x |-> RowValue(row, RLN_IMAGE_COORD_X),
              y |-> RowValue(row, RLN_IMAGE_COORD_Y),
              attrs |-> [l \in COOR_EXTRA_LABELS \cap labels |->
                            IF l = RLN_PARTICLE_CLASS
                            THEN RowValue(row, l) + 1
                            ELSE RowValue(row, l)],
              micId |-> <<>> ] >>
    ELSE <<>>

\* coord.getAttributeValue(label, default)
getAttributeValue(coord, label, default) ==
    IF label \in DOMAIN coord.attrs THEN coord.attrs[label] ELSE default

\* (variant) the records are appended without the link to the micrograph
RECURSIVE ReadRowsUnlinked(_, _, _, _)
ReadRowsUnlinked(labels, rows, mic, items) ==
    IF rows = <<>> THEN [items |-> items, raised |-> FALSE]
    ELSE LET coord == rowToCoordinate(labels, Head(rows))
         IN IF coord = <<>> THEN [items |-> items, raised |-> TRUE]
            ELSE ReadRowsUnlinked(labels, Tail(rows), mic,
                                  Append(items, coord[1]))

\* (variant) a row without the required labels is skipped
RECURSIVE ReadRowsSkipNone(_, _, _, _)
ReadRowsSkipNone(labels, rows, mic, items) ==
    IF rows = <<>> THEN [items |-> items, raised |-> FALSE]
    ELSE LET coord == rowToCoordinate(labels, Head(rows))
         IN IF coord = <<>>
            THEN ReadRowsSkipNone(labels, Tail(rows), mic, items)
            ELSE ReadRowsSkipNone(labels, Tail(rows), mic,
                          Append(items, [coord[1] EXCEPT !.micId = <<mic>>]))

\* the loop of readCoordinates over the rows of a file: every row is
\* converted, linked to mic and appended; using the None of a row without
\* the required labels raises (AttributeError) and ends the loop
RECURSIVE ReadRows(_, _, _, _)
ReadRows(labels, rows, mic, items) ==
    IF rows = <<>> THEN [items |-> items, raised |-> FALSE]
    ELSE LET coord == rowToCoordinate(labels, Head(rows))
         IN IF coord = <<>> THEN [items |-> items, raised |-> TRUE]
            ELSE ReadRows(labels, Tail(rows), mic,
                          Append(items, [coord[1] EXCEPT !.micId = <<mic>>]))

\* (variant) readCoordinates without the test of os.path.exists: reading a
\* file that is not there raises
readCoordinatesNoExists(mic, fileName, dir, items) ==
    IF fileName \in DOMAIN dir
    THEN ReadRows(dir[fileName].labels, dir[fileName].rows, mic, items)
    ELSE [items |-> items, raised |-> TRUE]

\* readCoordinates(mic, fileName, coordsSet) on the directory dir
readCoordinates(mic, fileName, dir, items) ==
    IF fileName \in DOMAIN dir
    THEN ReadRows(dir[fileName].labels, dir[fileName].rows, mic, items)
    ELSE [items |-> items, raised |-> FALSE]

\* the name readSetOfCoordinates builds for a micrograph
CoordsFn(mic, suffix) == removeBaseExt(MicFileName(mic)) \o suffix

\* readSetOfCoordinates(workDir, micSet, coordSet, suffix): the files of
\* the micrographs of micList are read in the order of the list; an error
\* of readCoordinates leaves the loop.  log gets one entry per call of
\* readCoordinates (history).
RECURSIVE readSetOfCoordinates(_, _, _, _, _)
readSetOfCoordinates(dir, micList, coordSet, suffix, log) ==
    IF micList = <<>>
    THEN [set |-> coordSet, raised |-> FALSE, log |-> log]
    ELSE LET mic == Head(micList)
             fileName == CoordsFn(mic, suffix)
             r == readCoordinates(mic, fileName, dir, coordSet.items)
             entry == [ suffix |-> suffix, mic |-> mic,
                        exists |-> fileName \in DOMAIN dir,
                        boxSize |-> coordSet.boxSize,
                        before |-> coordSet.items, after |-> r.items,
                        raised |-> r.raised ]
             next == [coordSet EXCEPT !.items = r.items]
         IN IF r.raised
            THEN [set |-> next, raised |-> TRUE, log |-> Append(log, entry)]
            ELSE readSetOfCoordinates(dir, Tail(micList), next, suffix,
                                      Append(log, entry))

\* a SetOfCoordinates just created: no box size, no items
NewSetOfCoordinates == [boxSize |-> <<>>, items |-> <<>>]

\* (variant) the box size is set at every merge
setBoxSizeAlways(coordSet, c) ==
    [coordSet EXCEPT !.boxSize = <<_getBoxSize(c)>>]

\* 'if coordSet.getBoxSize() is None: coordSet.setBoxSize(...)'
setBoxSizeIfNone(coordSet, c) ==
    IF coordSet.boxSize = <<>>
    THEN [coordSet EXCEPT !.boxSize = <<_getBoxSize(c)>>]
    ELSE coordSet

\* getOutputName(fn, key)
getOutputName(fn, key) == removeBaseExt(fn) \o <<key, ".mrc">>

\* the suffixes readRejectedCoordsFromMics creates a debug output for
DebugOutputs(c) ==
    {debugSuffixes[k][1] : k \in {k \in 1..6 :
        << c.writeCC, c.writeFilt, c.writeBg, c.writeBgSub, c.writeSigma,
           c.writeMsk >>[k]}}

\* createDebugOutput for every selected suffix: a set of micrographs with
\* the output name of every input micrograph
createDebugOutput(c, micSet) ==
    [suffix \in DebugOutputs(c) |->
        [i \in 1..Len(micSet) |-> getOutputName(MicFileName(micSet[i]), suffix)]]

\* (variant) the rejected set is read from the accepted files
readRejectedCoordsFromMicsAccepted(dir, micList, rejected, c, micSet, log) ==
    LET coordSetAux == IF ~rejected.exists THEN NewSetOfCoordinates
                       ELSE rejected.set
        sized == [coordSetAux EXCEPT !.boxSize = <<_getBoxSize(c)>>]
        r == readSetOfCoordinates(dir, micList, sized, AutomatchSuffix, log)
    IN IF r.raised
       THEN [rejected |-> rejected, raised |-> TRUE, log |-> r.log,
             debug |-> <<>>]
       ELSE [rejected |-> [exists |-> TRUE, set |-> r.set],
             raised |-> FALSE, log |-> r.log,
             debug |-> createDebugOutput(c, micSet)]

\* readRejectedCoordsFromMics: rejected is the persistent
\* coordinates_rejected.sqlite ([exists, set]); it is created or loaded,
\* gets the box size of the protocol, is read into and written; an error
\* of the reading leaves before write(), so the stored set is unchanged
readRejectedCoordsFromMics(dir, micList, rejected, c, micSet, log) ==
    LET coordSetAux == IF ~rejected.exists THEN NewSetOfCoordinates
                       ELSE rejected.set
        sized == [coordSetAux EXCEPT !.boxSize = <<_getBoxSize(c)>>]
        r == readSetOfCoordinates(dir, micList, sized, RejectedSuffix, log)
    IN IF r.raised
       THEN [rejected |-> rejected, raised |-> TRUE, log |-> r.log,
             debug |-> <<>>]
       ELSE [rejected |-> [exists |-> TRUE, set |-> r.set],
             raised |-> FALSE, log |-> r.log,
             debug |-> createDebugOutput(c, micSet)]

\* readCoordsFromMics(workingDir, micList, coordSet)
readCoordsFromMics(dir, micList, coordSet, rejected, c, micSet) ==
    LET sized == setBoxSizeIfNone(coordSet, c)
        r == readSetOfCoordinates(dir, micList, sized, AutomatchSuffix, <<>>)
    IN IF r.raised
       THEN [coords |-> r.set, rejected |-> rejected, raised |-> TRUE,
             log |-> r.log, debug |-> <<>>]
       ELSE LET q == readRejectedCoordsFromMics(dir, micList, rejected, c,
                                                micSet, r.log)
            IN [coords |-> r.set, rejected |-> q.rejected,
                raised |-> q.raised, log |-> q.log, debug |-> q.debug]

(***************************************************************************)
(* The merges: readCoordsFromMics called for lists of micrographs on the   *)
(* star files the harvests left in getMicrographsDir().                    *)
(***************************************************************************)
CoordMics == 1..NumCoordMics

\* row k of the coordinate file the picker wrote for a micrograph (floats
\* as printed with six decimals, the class number from 0)
PickerRow(mic, k) ==
    [l \in HEADER |->
        CASE l = RLN_IMAGE_COORD_X -> 10500000 * k + 1000000 * mic
          [] l = RLN_IMAGE_COORD_Y -> 20250000 * k
          [] l = RLN_ORIENT_PSI -> 0
          [] l = RLN_PARTICLE_CLASS -> k - 1
          [] OTHER -> 900000]

\* a star file with n rows of the picker and without the columns lack
StarFile(mic, n, lack) ==
    [labels |-> HEADER \ lack,
     rows |-> [k \in 1..n |-> [l \in HEADER \ lack |-> PickerRow(mic, k)[l]]]]

\* what can be at the place of a micrograph's coordinate file
FileOf(kind, mic) ==
    CASE kind = "rows1" -> StarFile(mic, 1, {})
      [] kind = "rows2" -> StarFile(mic, 2, {})
      [] kind = "noX" -> StarFile(mic, 1, {RLN_IMAGE_COORD_X})
      [] OTHER -> StarFile(mic, 0, {RLN_IMAGE_COORD_Y})

\* the same file as the picker writes it for the rejected particles: the
\* rows have a lower figure of merit
RejectedFileOf(kind, mic) ==
    LET file == FileOf(kind, mic)
    IN [file EXCEPT !.rows =
          [k \in DOMAIN file.rows |->
             [l \in DOMAIN file.rows[k] |->
                IF l = RLN_PARTICLE_AUTOPICK_FOM THEN 100000
                ELSE file.rows[k][l]]]]

AcceptedKinds == {"missing", "rows1", "rows2", "noX", "noYempty"}
RejectedKinds == {"missing", "rows1", "noX"}

\* the star files of the output directory for a choice of kinds
StarDir(acc, rej) ==
    LET fa(m) == CoordsFn(m, AutomatchSuffix)
        fr(m) == CoordsFn(m, RejectedSuffix)
        A == {m \in CoordMics : acc[m] # "missing"}
        R == {m \in CoordMics : rej[m] # "missing"}
    IN [n \in {fa(m) : m \in A} \cup {fr(m) : m \in R} |->
          IF \E m \in A : n = fa(m)
          THEN LET m == CHOOSE m \in A : n = fa(m) IN FileOf(acc[m], m)
          ELSE LET m == CHOOSE m \in R : n = fr(m)
               IN RejectedFileOf(rej[m], m)]

\* the debug images in the output directory: those the harvests moved
\* there, for the micrographs that have an accepted file
DebugImages(acc, c) ==
    {getOutputName(MicFileName(m), suffix) :
        m \in {m \in CoordMics : acc[m] # "missing"},
        suffix \in DebugOutputs(c)}

\* the micrograph lists a merge is called with
MicLists ==
    UNION {{l \in [1..n -> CoordMics] :
              \A i, j \in 1..n : i # j => l[i] # l[j]} : n \in CoordMics}

\* the box size of the protocol: the parameter, the references or 100
CoordCfgs ==
    {[DefaultCfg EXCEPT !.boxSize = box, !.inputReferences = o[1],
                        !.writeBg = o[2], !.refXDim = 64] :
        box \in {-1, 150}, o \in OutputChoices}

InitCoords ==
    /\ cfg \in CoordCfgs
    /\ IdleRun
    /\ argsOut = NoArgs
    /\ pathOut = <<>>
    /\ starIo = <<>>
    /\ \E acc \in [CoordMics -> AcceptedKinds],
          rej \in [CoordMics -> RejectedKinds],
          box \in {<<>>, <<150>>, <<200>>} :
         coordSets =
            [ dir |-> StarDir(acc, rej),
              images |-> DebugImages(acc, cfg),
              micSet |-> [i \in CoordMics |-> i],
              coords |-> [NewSetOfCoordinates EXCEPT !.boxSize = box],
              rejected |-> [exists |-> FALSE, set |-> NewSetOfCoordinates],
              err |-> "none", merges |-> 0, log |-> <<>>,
              lastList |-> <<>>, lastBefore |-> NewSetOfCoordinates,
              debug |-> <<>> ]

\* one call of readCoordsFromMics; an error leaves the call and the step
\* of the executor that made it
ReadCoordsFromMics ==
    /\ coordSets.err = "none"
    /\ coordSets.merges < MaxMerges
    /\ \E micList \in MicLists :
         LET r == readCoordsFromMics(coordSets.dir, micList, coordSets.coords,
                                     coordSets.rejected, cfg, coordSets.micSet)
         IN coordSets' =
              [coordSets EXCEPT
                 !.coords = r.coords, !.rejected = r.rejected,
                 !.err = IF r.raised THEN "AttributeError" ELSE "none",
                 !.merges = @ + 1, !.log = r.log, !.lastList = micList,
                 !.lastBefore = coordSets.coords, !.debug = r.debug]
    /\ UNCHANGED <<cfg, runVars, argsOut, pathOut, starIo>>

NextCoords == ReadCoordsFromMics

SpecCoords == InitCoords /\ [][NextCoords]_vars

\* the calls of readCoordinates of the last merge
LogEntries == {coordSets.log[i] : i \in 1..Len(coordSets.log)}

Merged == coordSets.merges > 0

\* a file that lacks a required column
Malformed(file) == ~(COOR_DICT \subseteq file.labels)

\* the accepted coordinate file of a micrograph, <<>> when there is none
AcceptedFile(mic) ==
    IF CoordsFn(mic, AutomatchSuffix) \in DOMAIN coordSets.dir
    THEN <<coordSets.dir[CoordsFn(mic, AutomatchSuffix)]>> ELSE <<>>

\* the pairs <<micrograph, row>> of the accepted files of a list, in the
\* order of the list and of the files
RECURSIVE AcceptedRows(_)
AcceptedRows(micList) ==
    IF micList = <<>> THEN <<>>
    ELSE LET f == AcceptedFile(Head(micList))
             rows == IF f = <<>> THEN <<>> ELSE f[1].rows
         IN [k \in 1..Len(rows) |-> <<Head(micList), rows[k]>>]
            \o AcceptedRows(Tail(micList))

\* C14: reading the coordinates of a micrograph whose coordinate file does
\* not exist raises nothing and leaves the coordinate set as it was; a
\* merge over micrographs none of which has a file leaves the accepted set
\* unchanged and ends without error.
C14_MissingFileAppendsNothing ==
    /\ \A e \in LogEntries :
          ~e.exists => (~e.raised /\ e.after = e.before)
    /\ (Merged /\ \A i \in 1..Len(coordSets.lastList) :
            /\ AcceptedFile(coordSets.lastList[i]) = <<>>
            /\ CoordsFn(coordSets.lastList[i], RejectedSuffix)
                  \notin DOMAIN coordSets.dir)
         => /\ coordSets.err = "none"
            /\ coordSets.coords.items = coordSets.lastBefore.items

\* a merge of two micrographs, the first without a coordinate file, the
\* second with one: the first adds nothing, the second its records
C14_Witness ==
    /\ Merged /\ coordSets.err = "none"
    /\ Len(coordSets.lastList) = 2
    /\ \E e1, e2 \in LogEntries :
         /\ e1.suffix = AutomatchSuffix /\ e1.mic = coordSets.lastList[1]
         /\ ~e1.exists /\ e1.after = e1.before
         /\ e2.suffix = AutomatchSuffix /\ e2.mic = coordSets.lastList[2]
         /\ e2.exists /\ Len(e2.after) > Len(e2.before)

AcceptedEntries(mic) ==
    {e \in LogEntries : e.suffix = AutomatchSuffix /\ e.mic = mic}

\* C15 as stated: reading a coordinate file that exists but lacks the x
\* or y column fails, and the failure stays with the micrograph (batch)
\* of that file: the records of every other listed micrograph with a
\* well-formed file are still merged.
C15_MalformedFatalToOwnBatchOnly ==
    Merged =>
        \A i \in 1..Len(coordSets.lastList) :
            LET mic == coordSets.lastList[i]
                f == AcceptedFile(mic)
            IN f # <<>> =>
                 IF Malformed(f[1])
                 THEN \E e \in AcceptedEntries(mic) : e.raised
                 ELSE \E e \in AcceptedEntries(mic) :
                         /\ ~e.raised
                         /\ Len(e.after) = Len(e.before) + Len(f[1].rows)

\* C15 amended: reading a file that exists, lacks a required column and
\* has at least one row raises (the None of rowToCoordinate is used) and
\* appends nothing from it; with no row nothing is raised.  Nothing
\* catches the error: it ends the merge, which keeps the records appended
\* before it, reads no later micrograph of the list and does not reach
\* the rejected coordinates.
C15_MalformedEndsTheMerge ==
    /\ \A e \in LogEntries :
          /\ e.raised <=> (e.exists /\ e.after = e.before
                           /\ Malformed(coordSets.dir[CoordsFn(e.mic, e.suffix)])
                           /\ coordSets.dir[CoordsFn(e.mic, e.suffix)].rows # <<>>)
    /\ \A i \in 1..Len(coordSets.log) :
          coordSets.log[i].raised => i = Len(coordSets.log)
    /\ coordSets.err = "AttributeError" <=> \E e \in LogEntries : e.raised
    /\ \A i \in 1..Len(coordSets.lastList) :
          LET mic == coordSets.lastList[i]
          IN (AcceptedEntries(mic) # {}
                /\ \A e \in AcceptedEntries(mic) : e.raised) =>
               /\ coordSets.coords.items
                     = (CHOOSE e \in AcceptedEntries(mic) : TRUE).before
               /\ \A j \in (i + 1)..Len(coordSets.lastList) :
                     AcceptedEntries(coordSets.lastList[j]) = {}
               /\ \A e \in LogEntries : e.suffix = AutomatchSuffix

\* a merge of two micrographs whose first file lacks the x column: the
\* merge has ended with the error and the records of the second file,
\* which is well formed, are not in the set
C15_Witness ==
    /\ coordSets.err = "AttributeError"
    /\ Len(coordSets.lastList) = 2
    /\ \E e \in AcceptedEntries(coordSets.lastList[1]) : e.raised
    /\ AcceptedFile(coordSets.lastList[2]) # <<>>
    /\ ~Malformed(AcceptedFile(coordSets.lastList[2])[1])
    /\ AcceptedFile(coordSets.lastList[2])[1].rows # <<>>
    /\ coordSets.coords.items = coordSets.lastBefore.items

\* the last merge was into an accepted set whose box size was set and is
\* not the box size of the protocol
BoxSizeDiffers ==
    /\ Merged
    /\ coordSets.lastBefore.boxSize # <<>>
    /\ coordSets.lastBefore.boxSize # <<_getBoxSize(cfg)>>

\* C19 as stated: a merge into a coordinate set whose box size is set,
\* with another box size, fails and appends nothing.
C19_DifferentBoxSizeFails ==
    BoxSizeDiffers =>
        /\ coordSets.err # "none"
        /\ coordSets.coords.items = coordSets.lastBefore.items

\* C19 amended: a merge into a coordinate set whose box size is set, with
\* another box size, does not fail on that account: the set keeps its box
\* size, the merge ends without error unless a coordinate file is
\* malformed, and it then has appended every record of the accepted files;
\* the rejected set it writes has the box size of the protocol.
C19_DifferentBoxSizeKept ==
    BoxSizeDiffers =>
        /\ coordSets.coords.boxSize = coordSets.lastBefore.boxSize
        /\ coordSets.err # "none" =>
              \E n \in DOMAIN coordSets.dir :
                  /\ Malformed(coordSets.dir[n])
                  /\ coordSets.dir[n].rows # <<>>
        /\ coordSets.err = "none" =>
              /\ Len(coordSets.coords.items)
                    = Len(coordSets.lastBefore.items)
                      + Len(AcceptedRows(coordSets.lastList))
              /\ coordSets.rejected.exists
              /\ coordSets.rejected.set.boxSize = <<_getBoxSize(cfg)>>

\* records appended by a merge into a set of box size 200 by a protocol
\* of box size 150
C19_Witness ==
    /\ BoxSizeDiffers
    /\ coordSets.err = "none"
    /\ coordSets.lastBefore.boxSize = <<200>> /\ _getBoxSize(cfg) = 150
    /\ coordSets.coords.boxSize = <<200>>
    /\ Len(coordSets.coords.items) > Len(coordSets.lastBefore.items)

\* a coordinate set that holds a record has a positive box size
BoxSizePositive(set) ==
    set.items # <<>> =>
        /\ set.boxSize # <<>>
        /\ set.boxSize[1] \in Nat \ {0}

\* C20: a coordinate set (accepted or rejected) that holds a record has a
\* positive integer box size; the box size was set when the first record
\* was appended (every reading that appended found it set); and no merge
\* changes a box size that is set.
C20_BoxSizeFixedOnceSet ==
    /\ [](/\ BoxSizePositive(coordSets.coords)
          /\ BoxSizePositive(coordSets.rejected.set)
          /\ \A e \in LogEntries :
                e.after # e.before =>
                    (e.boxSize # <<>> /\ e.boxSize[1] \in Nat \ {0}))
    /\ [][/\ coordSets.coords.boxSize # <<>> =>
                coordSets'.coords.boxSize = coordSets.coords.boxSize
          /\ coordSets.rejected.set.boxSize # <<>> =>
                coordSets'.rejected.set.boxSize
                    = coordSets.rejected.set.boxSize]_vars

\* two merges have appended records to an accepted set that had no box
\* size and to the rejected set; both have the box size of the protocol
C20_Witness ==
    /\ coordSets.merges = 2
    /\ coordSets.err = "none"
    /\ coordSets.coords.boxSize = <<_getBoxSize(cfg)>>
    /\ Len(coordSets.coords.items) > Len(coordSets.lastBefore.items)
    /\ coordSets.lastBefore.items # <<>>
    /\ coordSets.rejected.set.items # <<>>
    /\ coordSets.rejected.set.boxSize = <<_getBoxSize(cfg)>>

\* the records of a coordinate set
Items(set) == {set.items[i] : i \in 1..Len(set.items)}

\* the record is what readCoordinates makes of a row of the file of its
\* micrograph that has the suffix
ReadFrom(item, suffix) ==
    /\ item.micId # <<>>
    /\ LET fileName == CoordsFn(item.micId[1], suffix)
       IN /\ fileName \in DOMAIN coordSets.dir
          /\ \E k \in DOMAIN coordSets.dir[fileName].rows :
                LET coord == rowToCoordinate(coordSets.dir[fileName].labels,
                                             coordSets.dir[fileName].rows[k])
                IN /\ coord # <<>>
                   /\ item = [coord[1] EXCEPT !.micId = item.micId]

\* C21: after any sequence of merges the accepted set holds only records
\* read from _automatch.star files and the rejected set only records read
\* from _rejected.star files; no record is in both sets.
C21_RejectedApartFromAccepted ==
    /\ \A item \in Items(coordSets.coords) :
          /\ ReadFrom(item, AutomatchSuffix)
          /\ ~ReadFrom(item, RejectedSuffix)
    /\ \A item \in Items(coordSets.rejected.set) :
          /\ ReadFrom(item, RejectedSuffix)
          /\ ~ReadFrom(item, AutomatchSuffix)
    /\ Items(coordSets.coords) \cap Items(coordSets.rejected.set) = {}

\* two merges have filled both sets and a micrograph has records in both
C21_Witness ==
    /\ coordSets.merges = 2
    /\ \E a \in Items(coordSets.coords),
          r \in Items(coordSets.rejected.set) : a.micId = r.micId

\* the rows of the file with the suffix of the micrograph of a record that
\* have the record's position
RowsOf(item, suffix) ==
    LET fileName == CoordsFn(item.micId[1], suffix)
    IN IF fileName \in DOMAIN coordSets.dir
       THEN LET file == coordSets.dir[fileName]
            IN {file.rows[k] : k \in
                  {k \in DOMAIN file.rows :
                     /\ ParseFloat(file.rows[k][RLN_IMAGE_COORD_X]) = item.x
                     /\ ParseFloat(file.rows[k][RLN_IMAGE_COORD_Y]) = item.y}}
       ELSE {}

\* the class number of the record is that of its row plus one
ClassIncremented(item, suffix) ==
    RLN_PARTICLE_CLASS \in DOMAIN item.attrs =>
        /\ RowsOf(item, suffix) # {}
        /\ \A row \in RowsOf(item, suffix) :
              /\ row[RLN_PARTICLE_CLASS] >= 0
              /\ item.attrs[RLN_PARTICLE_CLASS] = row[RLN_PARTICLE_CLASS] + 1
        /\ item.attrs[RLN_PARTICLE_CLASS] >= 1

\* C28: the class number of every coordinate read from a picker file is
\* the class number of its row in the file plus 1, so that every record
\* read that has a class number has one of at least 1.
C28_ClassNumberIncremented ==
    /\ \A item \in Items(coordSets.coords) :
          ClassIncremented(item, AutomatchSuffix)
    /\ \A item \in Items(coordSets.rejected.set) :
          ClassIncremented(item, RejectedSuffix)

\* records of class 1 and 2 have been read from rows of class 0 and 1,
\* and a rejected record of class 1 from a row of class 0
C28_Witness ==
    /\ \E a1, a2 \in Items(coordSets.coords) :
          /\ a1.attrs[RLN_PARTICLE_CLASS] = 1
          /\ a2.attrs[RLN_PARTICLE_CLASS] = 2
          /\ \E row \in RowsOf(a2, AutomatchSuffix) :
                row[RLN_PARTICLE_CLASS] = 1
    /\ \E r \in Items(coordSets.rejected.set) :
          r.attrs[RLN_PARTICLE_CLASS] = 1

\* the image names a debug output set lists
Listed(suffix) ==
    {coordSets.debug[suffix][i] : i \in DOMAIN coordSets.debug[suffix]}

\* C29: every micrograph listed in a debug output set points to a debug
\* image that exists in the output directory; the micrographs of batches
\* that failed or are not yet harvested, which have no image there, are
\* not listed.
C29_DebugOutputListsExistingImages ==
    \A suffix \in DOMAIN coordSets.debug :
        Listed(suffix) \subseteq coordSets.images

(***************************************************************************)
(* The writer: CoordStarWriter, writeMicCoords and writeDefectsFile, and   *)
(* the reading of a written file with readCoordinates.                     *)
(***************************************************************************)
\* CoordStarWriter.writeRow: the line '%0.6f %0.6f %0.6f %d %0.6f'
writeRow(x, y, psi, classNumber, autopickFom) ==
    [l \in HEADER |->
        CASE l = RLN_IMAGE_COORD_X -> Fmt06f(x)
          [] l = RLN_IMAGE_COORD_Y -> Fmt06f(y)
          [] l = RLN_ORIENT_PSI -> Fmt06f(psi)
          [] l = RLN_PARTICLE_CLASS -> classNumber
          [] OTHER -> Fmt06f(autopickFom)]

\* the row writeMicCoords writes for a coordinate
MicCoordsRow(coord) ==
    writeRow(coord.x, coord.y,
             getAttributeValue(coord, RLN_ORIENT_PSI, 0),
             getAttributeValue(coord, RLN_PARTICLE_CLASS, 0),
             getAttributeValue(coord, RLN_PARTICLE_AUTOPICK_FOM, 0))

\* the row writeDefectsFile writes for a coordinate
DefectsRow(coord) == writeRow(coord.x, coord.y, 0, 0, 0)

\* a coordinate of the platform with its three attributes
Coordinate(x, y, psi, classNumber, autopickFom) ==
    [ x |-> x, y |-> y,
      attrs |-> [l \in COOR_EXTRA_LABELS |->
                    CASE l = RLN_ORIENT_PSI -> psi
                      [] l = RLN_PARTICLE_CLASS -> classNumber
                      [] OTHER -> autopickFom],
      micId |-> <<1>> ]

\* the coordinates written: (10.0, 20.0, 0, 0, 0), (30.5, 40.25, 5.0, 1,
\* 0.9), one with digits after the sixth decimal, and one without
\* attributes
CoordChoices ==
    { Coordinate(100000000, 200000000, 0, 0, 0),
      Coordinate(305000000, 402500000, 50000000, 1, 9000000),
      Coordinate(305000004, 402500006, 1234567, 2, 9999996),
      [ x |-> 70000000, y |-> 80000000, attrs |-> <<>>, micId |-> <<1>> ] }

CoordSeqs == UNION {[1..n -> CoordChoices] : n \in 0..MaxRecords}

\* the file a writer leaves after the header and the first n of rows
WrittenFile(rows, n) == [labels |-> HEADER, rows |-> SubSeq(rows, 1, n)]

\* the name of the file written (the exclusion file of micrograph 1)
WrittenFn == CoordsFn(1, RubbishSuffix)

InitStar ==
    /\ cfg = DefaultCfg
    /\ IdleRun
    /\ argsOut = NoArgs
    /\ pathOut = <<>>
    /\ coordSets = <<>>
    /\ \E R \in CoordSeqs :
         starIo = [ op |-> "none", coordSet |-> R, file |-> <<>>,
                    opened |-> FALSE, closed |-> FALSE, raised |-> FALSE,
                    readBack |-> <<>> ]

\* a writer called to write rows, in which the write number failAt raises
\* (0: the header, k: row k, more: none): the file is opened and the
\* header and the rows before the failing one written; close() is the last
\* statement and is reached only when nothing was raised
Write(op, rows, failAt) ==
    LET n == Len(rows)
        done == IF failAt > n THEN n ELSE IF failAt = 0 THEN 0 ELSE failAt - 1
    IN starIo' =
         [starIo EXCEPT
            !.op = op,
            !.file = << IF failAt = 0 THEN [labels |-> {}, rows |-> <<>>]
                        ELSE WrittenFile(rows, done) >>,
            !.opened = TRUE,
            !.closed = failAt > n,
            !.raised = ~(failAt > n)]

\* writeMicCoords(mic, coordSet, outputFn)
WriteMicCoords ==
    /\ starIo.op = "none"
    /\ \E failAt \in 0..(Len(starIo.coordSet) + 1) :
         Write("writeMicCoords",
               [k \in 1..Len(starIo.coordSet) |->
                    MicCoordsRow(starIo.coordSet[k])],
               failAt)
    /\ UNCHANGED <<cfg, runVars, argsOut, pathOut, coordSets>>

\* writeDefectsFile(coordSet, outputFn)
WriteDefectsFile ==
    /\ starIo.op = "none"
    /\ \E failAt \in 0..(Len(starIo.coordSet) + 1) :
         Write("writeDefectsFile",
               [k \in 1..Len(starIo.coordSet) |->
                    DefectsRow(starIo.coordSet[k])],
               failAt)
    /\ UNCHANGED <<cfg, runVars, argsOut, pathOut, coordSets>>

\* the written file is read with readCoordinates into an empty set
ReadBack ==
    /\ starIo.op \in {"writeMicCoords", "writeDefectsFile"}
    /\ starIo.closed
    /\ starIo.readBack = <<>>
    /\ LET dir == [n \in {WrittenFn} |-> starIo.file[1]]
           r == readCoordinates(1, WrittenFn, dir, <<>>)
       IN starIo' = [starIo EXCEPT !.readBack = <<r.items>>,
                                   !.raised = r.raised]
    /\ UNCHANGED <<cfg, runVars, argsOut, pathOut, coordSets>>

NextStar == WriteMicCoords \/ WriteDefectsFile \/ ReadBack

SpecStar == InitStar /\ [][NextStar]_vars

\* two floats differ by at most 10^-6
Within6Decimals(a, b) == a - b <= 10 /\ b - a <= 10

\* a written file has been read back
ReadBackDone(op) == starIo.op = op /\ starIo.readBack # <<>>

\* C16 as stated: the records read back from a file written by
\* writeMicCoords are as many as the records written, in the same order,
\* every float within 10^-6 of the written one and the class number equal
\* to the written one.
C16_RoundTripIdentity ==
    ReadBackDone("writeMicCoords") =>
        LET R == starIo.coordSet
            B == starIo.readBack[1]
        IN /\ ~starIo.raised
           /\ Len(B) = Len(R)
           /\ \A k \in 1..Len(R) :
                /\ Within6Decimals(B[k].x, R[k].x)
                /\ Within6Decimals(B[k].y, R[k].y)
                /\ Within6Decimals(getAttributeValue(B[k], RLN_ORIENT_PSI, 0),
                                   getAttributeValue(R[k], RLN_ORIENT_PSI, 0))
                /\ Within6Decimals(
                      getAttributeValue(B[k], RLN_PARTICLE_AUTOPICK_FOM, 0),
                      getAttributeValue(R[k], RLN_PARTICLE_AUTOPICK_FOM, 0))
                /\ getAttributeValue(B[k], RLN_PARTICLE_CLASS, 0)
                      = getAttributeValue(R[k], RLN_PARTICLE_CLASS, 0)

\* C16 amended: the records read back from a file written by
\* writeMicCoords are as many as the records written, in the same order,
\* every float within 10^-6 of the written one, and the class number is
\* the written one plus 1 (the reader increments it).  A file written by
\* writeDefectsFile gives back x and y within 10^-6, psi and figure of
\* merit 0 and class number 1.
C16_RoundTripClassPlusOne ==
    /\ ReadBackDone("writeMicCoords") =>
        LET R == starIo.coordSet
            B == starIo.readBack[1]
        IN /\ ~starIo.raised
           /\ Len(B) = Len(R)
           /\ \A k \in 1..Len(R) :
                /\ Within6Decimals(B[k].x, R[k].x)
                /\ Within6Decimals(B[k].y, R[k].y)
                /\ Within6Decimals(getAttributeValue(B[k], RLN_ORIENT_PSI, 0),
                                   getAttributeValue(R[k], RLN_ORIENT_PSI, 0))
                /\ Within6Decimals(
                      getAttributeValue(B[k], RLN_PARTICLE_AUTOPICK_FOM, 0),
                      getAttributeValue(R[k], RLN_PARTICLE_AUTOPICK_FOM, 0))
                /\ DOMAIN B[k].attrs = COOR_EXTRA_LABELS
                /\ B[k].attrs[RLN_PARTICLE_CLASS]
                      = getAttributeValue(R[k], RLN_PARTICLE_CLASS, 0) + 1
    /\ ReadBackDone("writeDefectsFile") =>
        LET R == starIo.coordSet
            B == starIo.readBack[1]
        IN /\ ~starIo.raised
           /\ Len(B) = Len(R)
           /\ \A k \in 1..Len(R) :
                /\ Within6Decimals(B[k].x, R[k].x)
                /\ Within6Decimals(B[k].y, R[k].y)
                /\ B[k].attrs[RLN_ORIENT_PSI] = 0
                /\ B[k].attrs[RLN_PARTICLE_AUTOPICK_FOM] = 0
                /\ B[k].attrs[RLN_PARTICLE_CLASS] = 1

\* (30.5, 40.25, 5.0, 1, 0.9) and a record with digits after the sixth
\* decimal written by writeMicCoords and read back, the second with x
\* rounded down and y rounded up
C16_Witness ==
    /\ ReadBackDone("writeMicCoords")
    /\ Len(starIo.coordSet) = 2
    /\ starIo.coordSet[1] = Coordinate(305000000, 402500000, 50000000, 1, 9000000)
    /\ starIo.coordSet[2].x = 305000004
    /\ starIo.readBack[1][1].attrs[RLN_PARTICLE_CLASS] = 2
    /\ starIo.readBack[1][2].x = 305000000
    /\ starIo.readBack[1][2].y = 402500010

\* C17: when writeMicCoords or writeDefectsFile is left, normally or by an
\* exception raised after the file was opened, the file of the writer has
\* been closed.
C17_HandleClosedOnEveryExit ==
    (starIo.op \in {"writeMicCoords", "writeDefectsFile"} /\ starIo.opened)
        => starIo.closed

====
